---- MODULE Spec2Model ----
(***************************************************************************)
(* Verification model of gitlab-commit-tree: the diff-to-tree              *)
(* transformation (buildFileTree), the statistics parser (parseFileStats), *)
(* the unified-diff renderer (renderDiff), the extraction of a diff from   *)
(* GitLab's HTML (extractDiffFromGitLabHTML), syntax highlighting          *)
(* (highlightCode), the reading of API responses                           *)
(* (processFilesFromApiResponse), the search of the preview                *)
(* (setupPreviewSearch), the folder items of the rendered tree             *)
(* (expandAllFolders, collapseAllFolders), the paginated fetch of the      *)
(* file list (fetchAllFilesWithPagination), debounce, the preview panel    *)
(* with its caches (showFileInPreview) and the tree button of a commit     *)
(* (attachTreeButtonToCommit, createTreeForCommit).                        *)
(*                                                                         *)
(* A JavaScript string is modelled as a sequence of one-character strings, *)
(* so that split, startsWith, substring and the hunk-header regular        *)
(* expression are computed character by character.                         *)
(***************************************************************************)
EXTENDS Integers, Sequences, FiniteSets, TLC

VARIABLES
    files,        \* argument of buildFileTree
    tree,         \* outcome of buildFileTree
    treePc,       \* "ready" | "returned" | "threw"
    statsInput,   \* argument of parseFileStats
    statsOut,     \* value returned by parseFileStats
    statsPc,      \* "ready" | "returned"
    diffContent,  \* argument of renderDiff
    container,    \* children of the container element handed to renderDiff
    diffPc,       \* "ready" | "rendered"
    htmlHolders,  \* the .line_holder elements of the HTML, in document order
    extracted,    \* value returned by extractDiffFromGitLabHTML
    htmlPanel,    \* children of the preview content the extracted diff is drawn in
    htmlPc,       \* "ready" | "extracted" | "rendered"
    hlContent,    \* arguments of highlightCode
    hlFileExt,
    hlFilename,
    hljsThrows,   \* whether hljs.highlight throws on this content
    hlOut,        \* value returned by highlightCode
    hlPc,         \* "ready" | "returned" | "threw"
    diffData,     \* arguments of processFilesFromApiResponse
    isComparePage,
    apiFiles,     \* value returned by processFilesFromApiResponse
    apiPc,        \* "ready" | "returned"
    panelCells,   \* text of the .ct-line-content cells of the preview panel
    searchValue,  \* searchInput.value
    searchTimer,  \* whether the debounced performSearch is pending
    currentMatches, \* closure state of setupPreviewSearch
    currentIndex,
    counter,      \* counter.textContent
    searchBar,    \* searchBar.style.display, "absent" before setupPreviewSearch
    folderShape,  \* the folder items of the rendered tree
    expanded,     \* the folder items that carry the expanded class
    timers,       \* pending setTimeout callbacks of autoExpandSingleChild
    lastCall,     \* the last operation on the tree view
    isComparePageInfo, \* projectInfo.isComparePage of fetchAllFilesWithPagination
    pageLog,      \* the requests made so far, each with its response
    allFiles,     \* allFiles of fetchAllFilesWithPagination
    currentPageNum,
    pagesPc,      \* "ready" | "looping" | "returned" | "threw"
    dbTimers,     \* pending timers set by the debounced function, each with the args of its call
    dbTimeout,    \* timeout of the debounce closure: 0 undefined, -1 before debounce(func, wait)
    dbLog,        \* the calls of the debounced function and the invocations of func, in order
    pvServer,     \* what the server holds per file: the extracted diff and the content
    pvCache,      \* diffContentCache and fullFileCache: the entries set so far
    pvInflight,   \* fetches awaited by showFileInPreview and renderFullFileContent
    pvElements,   \* the previewContent elements created so far, with what they hold
    pvAttached,   \* the previewContent element that is a child of the panel, 0 for none
    pvSelected,   \* previewPanel._currentFileNode and the mode of the last call
    pvLog,        \* network requests and their outcomes, in order
    commitUi      \* per commit of the branch-history page: its button, its tree container and its file-list fetch

treeVars   == <<files, tree, treePc>>
statsVars  == <<statsInput, statsOut, statsPc>>
diffVars   == <<diffContent, container, diffPc>>
htmlVars   == <<htmlHolders, extracted, htmlPanel, htmlPc>>
hlVars     == <<hlContent, hlFileExt, hlFilename, hljsThrows, hlOut, hlPc>>
apiVars    == <<diffData, isComparePage, apiFiles, apiPc>>
searchVars == <<panelCells, searchValue, searchTimer, currentMatches, currentIndex, counter,
                searchBar>>
folderVars == <<folderShape, expanded, timers, lastCall>>
pagesVars == <<isComparePageInfo, pageLog, allFiles, currentPageNum, pagesPc>>
debounceVars == <<dbTimers, dbTimeout, dbLog>>
previewVars == <<pvServer, pvCache, pvInflight, pvElements, pvAttached, pvSelected, pvLog>>
commitsVars == <<commitUi>>
vars       == <<treeVars, statsVars, diffVars, htmlVars, hlVars, apiVars, searchVars,
                folderVars,
    pagesVars,
    debounceVars,
    previewVars,
    commitsVars>>

\* what an operation of one component leaves alone: every other component
restOfTree   == <<statsVars, diffVars, htmlVars, hlVars, apiVars, searchVars, folderVars,
    pagesVars,
    debounceVars,
    previewVars,
    commitsVars>>
restOfStats  == <<treeVars, diffVars, htmlVars, hlVars, apiVars, searchVars, folderVars,
    pagesVars,
    debounceVars,
    previewVars,
    commitsVars>>
restOfDiff   == <<treeVars, statsVars, htmlVars, hlVars, apiVars, searchVars, folderVars,
    pagesVars,
    debounceVars,
    previewVars,
    commitsVars>>
restOfHtml   == <<treeVars, statsVars, diffVars, hlVars, apiVars, searchVars, folderVars,
    pagesVars,
    debounceVars,
    previewVars,
    commitsVars>>
restOfHl     == <<treeVars, statsVars, diffVars, htmlVars, apiVars, searchVars, folderVars,
    pagesVars,
    debounceVars,
    previewVars,
    commitsVars>>
restOfApi    == <<treeVars, statsVars, diffVars, htmlVars, hlVars, searchVars, folderVars,
    pagesVars,
    debounceVars,
    previewVars,
    commitsVars>>
restOfSearch == <<treeVars, statsVars, diffVars, htmlVars, hlVars, apiVars, folderVars,
    pagesVars,
    debounceVars,
    previewVars,
    commitsVars>>
restOfFolder == <<treeVars, statsVars, diffVars, htmlVars, hlVars, apiVars, searchVars,
    pagesVars,
    debounceVars,
    previewVars,
    commitsVars>>
restOfPages == <<treeVars, statsVars, diffVars, htmlVars, hlVars, apiVars, searchVars, folderVars,
    debounceVars,
    previewVars,
    commitsVars>>
restOfDebounce == <<treeVars, statsVars, diffVars, htmlVars, hlVars, apiVars, searchVars, folderVars, pagesVars,
    previewVars,
    commitsVars>>
restOfPreview == <<treeVars, statsVars, diffVars, htmlVars, hlVars, apiVars, searchVars, folderVars, pagesVars, debounceVars,
    commitsVars>>
restOfCommits == <<treeVars, statsVars, diffVars, htmlVars, hlVars, apiVars, searchVars, folderVars, pagesVars, debounceVars, previewVars>>

(***************************************************************************)
(* Bounds                                                                  *)
(***************************************************************************)
MaxFiles == 3
MaxStatsLen == 5
MaxLines == 5

(***************************************************************************)
(* JavaScript values and string primitives                                 *)
(***************************************************************************)
\* the JavaScript null, kept apart from every string
Null == <<"<null>">>

\* the null status of a folder
NullStatus == "<null>"

\* !value for a string-or-null value
IsFalsy(s) == s = Null \/ s = <<>>

StartsWith(s, p) == Len(s) >= Len(p) /\ SubSeq(s, 1, Len(p)) = p

\* s.substring(1)
Substring1(s) == SubSeq(s, 2, Len(s))

FirstIndexOf(s, c) ==
    IF \E i \in 1..Len(s) : s[i] = c
    THEN CHOOSE i \in 1..Len(s) : s[i] = c /\ \A j \in 1..(i - 1) : s[j] # c
    ELSE 0

RECURSIVE Split(_, _)
Split(s, sep) ==
    LET p == FirstIndexOf(s, sep) IN
    IF p = 0 THEN <<s>>
    ELSE <<SubSeq(s, 1, p - 1)>> \o Split(SubSeq(s, p + 1, Len(s)), sep)

RECURSIVE Join(_, _)
Join(parts, sep) ==
    IF Len(parts) = 0 THEN <<>>
    ELSE IF Len(parts) = 1 THEN parts[1]
    ELSE parts[1] \o <<sep>> \o Join(Tail(parts), sep)

SeqsUpTo(S, lo, hi) == UNION {[1..n -> S] : n \in lo..hi}

(***************************************************************************)
(* parseFileStats / parseFileStatsFromDiff                                 *)
(***************************************************************************)
ZeroStats == [additions |-> 0, deletions |-> 0]

RECURSIVE CountLines(_, _, _)
CountLines(lines, i, acc) ==
    IF i > Len(lines) THEN acc
    ELSE LET line == lines[i] IN
         IF StartsWith(line, <<"+">>) /\ ~StartsWith(line, <<"+", "+", "+">>)
         THEN CountLines(lines, i + 1, [acc EXCEPT !.additions = @ + 1])
         ELSE IF StartsWith(line, <<"-">>) /\ ~StartsWith(line, <<"-", "-", "-">>)
         THEN CountLines(lines, i + 1, [acc EXCEPT !.deletions = @ + 1])
         ELSE CountLines(lines, i + 1, acc)

\* faulty variant: the '+++' header exclusion is forgotten
parseFileStatsNoHeader(d) ==
    IF IsFalsy(d) THEN ZeroStats
    ELSE LET lines == Split(d, "\n") IN
         [additions |-> Cardinality({i \in 1..Len(lines) : StartsWith(lines[i], <<"+">>)}),
          deletions |-> Cardinality({i \in 1..Len(lines) :
                           StartsWith(lines[i], <<"-">>)
                           /\ ~StartsWith(lines[i], <<"-", "-", "-">>)})]

parseFileStats(d) ==
    IF IsFalsy(d) THEN ZeroStats
    ELSE CountLines(Split(d, "\n"), 1, ZeroStats)

parseFileStatsFromDiff(d) ==
    IF IsFalsy(d) THEN ZeroStats
    ELSE CountLines(Split(d, "\n"), 1, ZeroStats)

(***************************************************************************)
(* buildFileTree                                                           *)
(*                                                                         *)
(* A folder is [type, name, children, status, stats]; a file is            *)
(* [type, name, path, status, diff_content, stats].  The children object   *)
(* is the sequence of its [key, node] entries in property order            *)
(* (insertion order: assigning an existing key keeps its place, delete     *)
(* followed by assignment moves it to the end).                            *)
(***************************************************************************)
Thrown == [type |-> "TypeError"]

NewFolder(name) ==
    [type |-> "folder", name |-> name, children |-> <<>>,
     status |-> NullStatus, stats |-> ZeroStats]

NewFile(name, file, stats) ==
    [type |-> "file", name |-> name, path |-> file.path,
     status |-> file.status, diff_content |-> file.diff_content, stats |-> stats]

\* position of the property key in a children object, 0 when absent
KeyIndex(children, key) ==
    IF \E i \in 1..Len(children) : children[i].key = key
    THEN CHOOSE i \in 1..Len(children) : children[i].key = key
    ELSE 0

\* children[key] = node
SetChild(children, key, node) ==
    LET p == KeyIndex(children, key) IN
    IF p = 0 THEN Append(children, [key |-> key, node |-> node])
    ELSE [children EXCEPT ![p] = [key |-> key, node |-> node]]

\* delete children[key]
DeleteChild(children, key) ==
    SelectSeq(children, LAMBDA e : e.key # key)

AddStats(node, stats) ==
    [node EXCEPT !.stats = [additions |-> @.additions + stats.additions,
                            deletions |-> @.deletions + stats.deletions]]

\* the for loop of propagateStats; currentNode has already been credited
RECURSIVE PropagateLoop(_, _, _, _)
PropagateLoop(currentNode, parts, i, stats) ==
    IF i > Len(parts) - 1 THEN currentNode
    ELSE IF currentNode.type # "folder" THEN Thrown
    ELSE LET p == KeyIndex(currentNode.children, parts[i]) IN
         IF p = 0 THEN PropagateLoop(currentNode, parts, i + 1, stats)
         ELSE LET sub == PropagateLoop(AddStats(currentNode.children[p].node, stats),
                                       parts, i + 1, stats) IN
              IF sub = Thrown THEN Thrown
              ELSE [currentNode EXCEPT !.children[p].node = sub]

propagateStats(root, filePath, stats) ==
    PropagateLoop(AddStats(root, stats), Split(filePath, "/"), 1, stats)

\* faulty variant: the status of the last file placed beneath the folder wins
FolderStatusLastWins(old, fileStatus) ==
    IF fileStatus # NullStatus THEN fileStatus ELSE old

\* the folder status rule of the non-final segments
FolderStatus(old, fileStatus) ==
    IF fileStatus # NullStatus /\ (old = NullStatus \/ fileStatus = "modified")
    THEN fileStatus ELSE old

\* parts.forEach of buildFileTree from segment i on, at currentNode
RECURSIVE PlaceParts(_, _, _, _)
PlaceParts(currentNode, parts, i, file) ==
    IF currentNode.type # "folder" THEN Thrown
    ELSE IF i = Len(parts)
    THEN [currentNode EXCEPT !.children =
             SetChild(@, parts[i],
                      NewFile(parts[i], file, parseFileStatsFromDiff(file.diff_content)))]
    ELSE LET created == IF KeyIndex(currentNode.children, parts[i]) = 0
                        THEN SetChild(currentNode.children, parts[i], NewFolder(parts[i]))
                        ELSE currentNode.children
             p       == KeyIndex(created, parts[i])
             child   == [created[p].node EXCEPT !.status = FolderStatus(@, file.status)]
             sub     == PlaceParts(child, parts, i + 1, file)
         IN  IF sub = Thrown THEN Thrown
             ELSE [currentNode EXCEPT !.children = [created EXCEPT ![p].node = sub]]

\* one iteration of files.forEach
PlaceFile(root, file) ==
    LET placed == PlaceParts(root, Split(file.path, "/"), 1, file) IN
    IF placed = Thrown THEN Thrown
    ELSE propagateStats(placed, file.path, parseFileStatsFromDiff(file.diff_content))

RECURSIVE PlaceAll(_, _, _)
PlaceAll(root, fs, i) ==
    IF i > Len(fs) THEN root
    ELSE LET next == PlaceFile(root, fs[i]) IN
         IF next = Thrown THEN Thrown ELSE PlaceAll(next, fs, i + 1)

\* faulty variant: the two names are joined in the wrong order
MergedNameReversed(child, grandchild) == grandchild.name \o <<"/">> \o child.name

\* const newName = `${child.name}/${grandchild.name}`
MergedName(child, grandchild) == child.name \o <<"/">> \o grandchild.name

RECURSIVE collapseSingleChildFolders(_)
RECURSIVE CollapseLoop(_, _, _)
\* the for loop over the snapshot childKeys, from its k-th key on
CollapseLoop(node, childKeys, k) ==
    IF k > Len(childKeys) THEN node
    ELSE LET p == KeyIndex(node.children, childKeys[k])
             child == node.children[p].node
         IN  IF child.type # "folder" THEN CollapseLoop(node, childKeys, k + 1)
             ELSE LET done == collapseSingleChildFolders(child)
                      kept == [node EXCEPT !.children[p].node = done]
                  IN  IF Len(done.children) = 1 /\ done.children[1].node.type = "folder"
                      THEN LET grandchild == done.children[1].node
                               newName == MergedName(done, grandchild)
                               renamed == [grandchild EXCEPT !.name = newName]
                           IN  collapseSingleChildFolders(
                                   [node EXCEPT !.children =
                                       SetChild(DeleteChild(kept.children, childKeys[k]),
                                                newName, renamed)])
                      ELSE CollapseLoop(kept, childKeys, k + 1)

\* faulty variant: one scan of the children, a merge is not followed by a new scan
RECURSIVE CollapseScanOnce(_, _)
CollapseScanOnce(n, k) ==
    IF k > Len(n.children) THEN n
    ELSE LET child == n.children[k].node IN
         IF child.type = "folder" /\ Len(child.children) = 1
            /\ child.children[1].node.type = "folder"
         THEN LET g == child.children[1].node
                  newName == MergedName(child, g)
              IN  CollapseScanOnce(
                      [n EXCEPT !.children[k] =
                          [key |-> newName, node |-> [g EXCEPT !.name = newName]]],
                      k + 1)
         ELSE CollapseScanOnce(n, k + 1)

collapseWithoutRescan(node) ==
    IF node.type # "folder" THEN node ELSE CollapseScanOnce(node, 1)

collapseSingleChildFolders(node) ==
    IF node.type # "folder" THEN node
    ELSE CollapseLoop(node, [i \in 1..Len(node.children) |-> node.children[i].key], 1)

\* the tree as it stands when files.forEach has finished
BuildRaw(fs) == PlaceAll(NewFolder(<<"/">>), fs, 1)

buildFileTree(fs) ==
    LET raw == BuildRaw(fs) IN
    IF raw = Thrown THEN Thrown ELSE collapseSingleChildFolders(raw)

(***************************************************************************)
(* Inputs of buildFileTree                                                 *)
(***************************************************************************)
\* a diff with two additions and one deletion
SampleDiff == <<"+", "x", "\n", "+", "y", "\n", "-", "z">>

\* paths over the folder and file names a and b: repeated paths, a path that
\* is a directory prefix of another, sibling files, and chains of one, two
\* and three single-child folders at the root and below it
Paths ==
    {<<"a">>, <<"b">>,
     <<"a", "/", "b">>,
     <<"a", "/", "b", "/", "a">>, <<"a", "/", "b", "/", "b">>,
     <<"b", "/", "a", "/", "b">>,
     <<"a", "/", "b", "/", "a", "/", "b">>,
     <<"b", "/", "a", "/", "b", "/", "a">>}

FileRecords ==
    {[path |-> p, status |-> v.status, diff_content |-> v.diff_content] :
        p \in Paths,
        v \in {[status |-> "added", diff_content |-> SampleDiff],
               [status |-> "modified", diff_content |-> Null]}}

FileLists == SeqsUpTo(FileRecords, 0, MaxFiles)

NoTree == [type |-> "none"]

TreeIdle  == files = <<>> /\ tree = NoTree /\ treePc = "idle"
StatsIdle == statsInput = Null /\ statsOut = ZeroStats /\ statsPc = "idle"
DiffIdle  == diffContent = Null /\ container = <<>> /\ diffPc = "idle"
HtmlIdle  == htmlHolders = <<>> /\ extracted = Null /\ htmlPanel = <<>> /\ htmlPc = "idle"
HlIdle ==
    /\ hlContent = Null /\ hlFileExt = Null /\ hlFilename = Null
    /\ hljsThrows = FALSE /\ hlOut = Null /\ hlPc = "idle"
ApiIdle == diffData = Null /\ isComparePage = FALSE /\ apiFiles = <<>> /\ apiPc = "idle"
SearchIdle ==
    /\ panelCells = <<>> /\ searchValue = <<>> /\ searchTimer = FALSE
    /\ currentMatches = <<>>
    /\ currentIndex = -1 /\ counter = <<>> /\ searchBar = "absent"
FolderIdle == folderShape = <<>> /\ expanded = {} /\ timers = <<>> /\ lastCall = "idle"

PagesIdle == isComparePageInfo = FALSE /\ pageLog = <<>> /\ allFiles = <<>> /\ currentPageNum = 0 /\ pagesPc = "idle"

DebounceIdle == dbTimers = {} /\ dbTimeout = -1 /\ dbLog = <<>>

PreviewIdle == pvServer = <<>> /\ pvCache = {} /\ pvInflight = {} /\ pvElements = <<>> /\ pvAttached = 0 /\ pvSelected = Null /\ pvLog = <<>>

CommitsIdle == commitUi = <<>>

\* one component is exercised, the others are not in use
OnlyStatsAndDiff == TreeIdle /\ HtmlIdle /\ HlIdle /\ ApiIdle /\ SearchIdle /\ FolderIdle
    /\ PagesIdle
    /\ DebounceIdle
    /\ PreviewIdle
    /\ CommitsIdle
OnlyTree   == StatsIdle /\ DiffIdle /\ HtmlIdle /\ HlIdle /\ ApiIdle /\ SearchIdle /\ FolderIdle
    /\ PagesIdle
    /\ DebounceIdle
    /\ PreviewIdle
    /\ CommitsIdle
OnlyStats  == TreeIdle /\ DiffIdle /\ HtmlIdle /\ HlIdle /\ ApiIdle /\ SearchIdle /\ FolderIdle
    /\ PagesIdle
    /\ DebounceIdle
    /\ PreviewIdle
    /\ CommitsIdle
OnlyDiff   == TreeIdle /\ StatsIdle /\ HtmlIdle /\ HlIdle /\ ApiIdle /\ SearchIdle /\ FolderIdle
    /\ PagesIdle
    /\ DebounceIdle
    /\ PreviewIdle
    /\ CommitsIdle
OnlyHtml   == TreeIdle /\ StatsIdle /\ DiffIdle /\ HlIdle /\ ApiIdle /\ SearchIdle /\ FolderIdle
    /\ PagesIdle
    /\ DebounceIdle
    /\ PreviewIdle
    /\ CommitsIdle
OnlyHl     == TreeIdle /\ StatsIdle /\ DiffIdle /\ HtmlIdle /\ ApiIdle /\ SearchIdle /\ FolderIdle
    /\ PagesIdle
    /\ DebounceIdle
    /\ PreviewIdle
    /\ CommitsIdle
OnlyApi    == TreeIdle /\ StatsIdle /\ DiffIdle /\ HtmlIdle /\ HlIdle /\ SearchIdle /\ FolderIdle
    /\ PagesIdle
    /\ DebounceIdle
    /\ PreviewIdle
    /\ CommitsIdle
OnlySearch == TreeIdle /\ StatsIdle /\ DiffIdle /\ HtmlIdle /\ HlIdle /\ ApiIdle /\ FolderIdle
    /\ PagesIdle
    /\ DebounceIdle
    /\ PreviewIdle
    /\ CommitsIdle
OnlyFolder == TreeIdle /\ StatsIdle /\ DiffIdle /\ HtmlIdle /\ HlIdle /\ ApiIdle /\ SearchIdle
    /\ PagesIdle
    /\ DebounceIdle
    /\ PreviewIdle
    /\ CommitsIdle
OnlyPages == StatsIdle /\ DiffIdle /\ HtmlIdle /\ HlIdle /\ ApiIdle /\ SearchIdle /\ FolderIdle /\ TreeIdle
    /\ DebounceIdle
    /\ PreviewIdle
    /\ CommitsIdle
OnlyDebounce == StatsIdle /\ DiffIdle /\ HtmlIdle /\ HlIdle /\ ApiIdle /\ SearchIdle /\ FolderIdle /\ PagesIdle /\ TreeIdle
    /\ PreviewIdle
    /\ CommitsIdle
OnlyPreview == TreeIdle /\ HtmlIdle /\ HlIdle /\ ApiIdle /\ SearchIdle /\ FolderIdle /\ PagesIdle /\ DebounceIdle /\ StatsIdle /\ DiffIdle
    /\ CommitsIdle
OnlyCommits == TreeIdle /\ HtmlIdle /\ HlIdle /\ ApiIdle /\ SearchIdle /\ FolderIdle /\ PagesIdle /\ DebounceIdle /\ PreviewIdle /\ StatsIdle /\ DiffIdle

TreeInit ==
    /\ files \in FileLists
    /\ tree = NoTree
    /\ treePc = "ready"
    /\ OnlyTree

\* const tree = buildFileTree(files), the call returns
BuildFileTreeReturns ==
    /\ treePc = "ready"
    /\ buildFileTree(files) # Thrown
    /\ tree' = buildFileTree(files)
    /\ treePc' = "returned"
    /\ UNCHANGED <<files, restOfTree>>

\* const tree = buildFileTree(files), a TypeError leaves the call
BuildFileTreeThrows ==
    /\ treePc = "ready"
    /\ buildFileTree(files) = Thrown
    /\ tree' = Thrown
    /\ treePc' = "threw"
    /\ UNCHANGED <<files, restOfTree>>

TreeNext == BuildFileTreeReturns \/ BuildFileTreeThrows

SpecTree == TreeInit /\ [][TreeNext]_vars

(***************************************************************************)
(* Reading a tree                                                          *)
(***************************************************************************)
RECURSIVE SumSeq(_)
SumSeq(ns) == IF ns = <<>> THEN 0 ELSE Head(ns) + SumSeq(Tail(ns))

RECURSIVE ConcatAll(_)
ConcatAll(ss) == IF ss = <<>> THEN <<>> ELSE Head(ss) \o ConcatAll(Tail(ss))

\* the file nodes below (or at) a node, depth first
RECURSIVE FileNodes(_)
FileNodes(node) ==
    IF node.type = "file" THEN <<node>>
    ELSE ConcatAll([i \in 1..Len(node.children) |-> FileNodes(node.children[i].node)])

\* the folders strictly below a folder
RECURSIVE FoldersBelow(_)
FoldersBelow(node) ==
    UNION {IF node.children[i].node.type = "folder"
           THEN {node.children[i].node} \cup FoldersBelow(node.children[i].node)
           ELSE {} : i \in 1..Len(node.children)}

AllFolders(root) == {root} \cup FoldersBelow(root)

SumAdditions(folder) ==
    LET fs == FileNodes(folder) IN SumSeq([i \in 1..Len(fs) |-> fs[i].stats.additions])

SumDeletions(folder) ==
    LET fs == FileNodes(folder) IN SumSeq([i \in 1..Len(fs) |-> fs[i].stats.deletions])

SingleFolderChild(folder) ==
    Len(folder.children) = 1 /\ folder.children[1].node.type = "folder"

Count(x, sq) == Cardinality({i \in 1..Len(sq) : sq[i] = x})

SameBag(s1, s2) ==
    /\ Len(s1) = Len(s2)
    /\ \A i \in 1..Len(s1) : Count(s1[i], s1) = Count(s1[i], s2)

\* every entry of the subtree is keyed by the name of its node
RECURSIVE KeysAreNames(_)
KeysAreNames(node) ==
    node.type = "folder" =>
        \A i \in 1..Len(node.children) :
            /\ node.children[i].key = node.children[i].node.name
            /\ KeysAreNames(node.children[i].node)

\* below a folder reached by the names in prefix, every file's path is the
\* '/'-join of the folder names above it and its own name
RECURSIVE PathsAreJoins(_, _)
PathsAreJoins(node, prefix) ==
    \A i \in 1..Len(node.children) :
        LET child == node.children[i].node IN
        IF child.type = "file"
        THEN Join(Append(prefix, child.name), "/") = child.path
        ELSE PathsAreJoins(child, Append(prefix, child.name))

\* the node of a tree found by following the keys segs from node, NoTree if none
RECURSIVE Walk(_, _)
Walk(node, segs) ==
    IF segs = <<>> THEN node
    ELSE IF node.type # "folder" THEN NoTree
    ELSE LET p == KeyIndex(node.children, Head(segs)) IN
         IF p = 0 THEN NoTree ELSE Walk(node.children[p].node, Tail(segs))

\* below a folder reached in the uncollapsed tree raw by the segments in
\* prefix, every folder name n1/../nk names a chain n1, .., nk of raw folders
\* of which all but the last hold exactly one entry
RECURSIVE NamesAreChains(_, _, _)
NamesAreChains(node, prefix, raw) ==
    \A i \in 1..Len(node.children) :
        LET child == node.children[i].node
            segs  == Split(child.name, "/")
        IN  child.type = "folder" =>
              /\ \A j \in 1..Len(segs) :
                    LET r == Walk(raw, prefix \o SubSeq(segs, 1, j)) IN
                    /\ r.type = "folder"
                    /\ r.name = segs[j]
                    /\ j < Len(segs) => SingleFolderChild(r)
              /\ NamesAreChains(child, prefix \o segs, raw)

(***************************************************************************)
(* Claims on buildFileTree                                                 *)
(***************************************************************************)
\* C1: in the returned tree every folder, the root included, has
\* stats.additions (deletions) equal to the sum of the additions (deletions)
\* of the file nodes below it, for every list of file records.
C1_FolderStatsAreSums ==
    treePc = "returned" =>
        \A f \in AllFolders(tree) :
            /\ f.stats.additions = SumAdditions(f)
            /\ f.stats.deletions = SumDeletions(f)

\* C2: in the returned tree no folder other than the root holds exactly one
\* entry that is itself a folder.
C2_NoSingleFolderChain ==
    treePc = "returned" => \A f \in FoldersBelow(tree) : ~SingleFolderChild(f)

\* a chain of three folders has been merged into one node
C2_Witness ==
    /\ treePc = "returned"
    /\ \E f \in FoldersBelow(tree) : Len(Split(f.name, "/")) = 3

\* C3: in the returned tree every child is keyed by its own name, a merged
\* folder's name is the '/'-join of the merged segments in path order, every
\* file's path is the '/'-join of the folder names above it and its own
\* name, and the collapse pass neither loses nor duplicates a file.
C3_KeysNamesAndPaths ==
    treePc = "returned" =>
        /\ KeysAreNames(tree)
        /\ NamesAreChains(tree, <<>>, BuildRaw(files))
        /\ PathsAreJoins(tree, <<>>)
        /\ SameBag(FileNodes(tree), FileNodes(BuildRaw(files)))

\* two files, one of them below a merged folder
C3_Witness ==
    /\ treePc = "returned"
    /\ Len(FileNodes(tree)) = 2
    /\ \E f \in FoldersBelow(tree) : Len(Split(f.name, "/")) >= 2

\* C4: buildFileTree never throws on records that carry a non-empty path.
C4_NeverThrows == treePc # "threw"

(***************************************************************************)
(* parseFileStats as an operation                                          *)
(***************************************************************************)
StatsAlphabet == {"+", "-", "x", "\n"}

StatsInputs == {Null} \cup SeqsUpTo(StatsAlphabet, 0, MaxStatsLen)

StatsInit ==
    /\ statsInput \in StatsInputs
    /\ statsOut = ZeroStats
    /\ statsPc = "ready"
    /\ OnlyStats

\* const stats = parseFileStats(diff)
ParseFileStatsCall ==
    /\ statsPc = "ready"
    /\ statsOut' = parseFileStats(statsInput)
    /\ statsPc' = "returned"
    /\ UNCHANGED <<statsInput, restOfStats>>

StatsNext == ParseFileStatsCall

SpecStats == StatsInit /\ [][StatsNext]_vars

IsAdditionLine(line) ==
    /\ Len(line) >= 1 /\ line[1] = "+"
    /\ ~(Len(line) >= 3 /\ line[2] = "+" /\ line[3] = "+")

IsDeletionLine(line) ==
    /\ Len(line) >= 1 /\ line[1] = "-"
    /\ ~(Len(line) >= 3 /\ line[2] = "-" /\ line[3] = "-")

\* C6: parseFileStats returns the number of lines that start with '+' and do
\* not start with the '+++' header marker as additions, the number of lines
\* that start with '-' and do not start with '---' as deletions, and zero for
\* both on null or empty input.
C6_StatsCountLines ==
    statsPc = "returned" =>
        IF statsInput = Null \/ statsInput = <<>>
        THEN statsOut = [additions |-> 0, deletions |-> 0]
        ELSE LET lines == Split(statsInput, "\n") IN
             /\ statsOut.additions =
                    Cardinality({i \in 1..Len(lines) : IsAdditionLine(lines[i])})
             /\ statsOut.deletions =
                    Cardinality({i \in 1..Len(lines) : IsDeletionLine(lines[i])})

\* a text with a '+++' header line and a counted addition
C6_Witness ==
    /\ statsPc = "returned"
    /\ statsInput # Null
    /\ \E i \in 1..Len(Split(statsInput, "\n")) :
           StartsWith(Split(statsInput, "\n")[i], <<"+", "+", "+">>)
    /\ statsOut.additions = 1

(***************************************************************************)
(* renderDiff                                                              *)
(*                                                                         *)
(* The container is the sequence of its child elements.  A row of the      *)
(* table is [cls, oldNum, newNum, content, src]: cls is the ct-diff-line-  *)
(* class (or "separator"), a number cell is <<>> for '' and <<n>> for the  *)
(* number n, content is the sequence of spans of the content cell, and src *)
(* (not part of the DOM) is the index of the diff line that the row was    *)
(* drawn for.                                                              *)
(***************************************************************************)
Digits == <<"0", "1", "2", "3", "4", "5", "6", "7", "8", "9">>

IsDigit(c) == \E d \in 1..10 : Digits[d] = c

DigitValue(c) == (CHOOSE d \in 1..10 : Digits[d] = c) - 1

\* parseInt(s, 10) of a string of digits
RECURSIVE ParseInt(_, _)
ParseInt(s, acc) ==
    IF s = <<>> THEN acc ELSE ParseInt(Tail(s), acc * 10 + DigitValue(Head(s)))

\* the literal lit stands in s at position p
LitAt(s, p, lit) == p + Len(lit) - 1 <= Len(s) /\ SubSeq(s, p, p + Len(lit) - 1) = lit

\* the position after the longest run of digits of s that starts at p (\d+ is greedy)
RECURSIVE DigitsEnd(_, _)
DigitsEnd(s, p) == IF p <= Len(s) /\ IsDigit(s[p]) THEN DigitsEnd(s, p + 1) ELSE p

\* the position after (?:,\d+)? at p
OptCountEnd(s, p) ==
    IF p + 1 <= Len(s) /\ s[p] = "," /\ IsDigit(s[p + 1]) THEN DigitsEnd(s, p + 1) ELSE p

\* faulty variant: a line that does not match sets both counters to 0
NoMatchResets == [ok |-> TRUE, old |-> 0, new |-> 0]

\* line.match(...) gives null
NoMatch == [ok |-> FALSE, old |-> 0, new |-> 0]

\* /@@ -(\d+)(?:,\d+)? \+(\d+)(?:,\d+)? @@/ tried at position p of s
HeaderMatchAt(s, p) ==
    IF ~LitAt(s, p, <<"@", "@", " ", "-">>) THEN NoMatch
    ELSE LET o1 == p + 4
             o2 == DigitsEnd(s, o1)
             c1 == OptCountEnd(s, o2)
             n1 == c1 + 2
             n2 == DigitsEnd(s, n1)
             c2 == OptCountEnd(s, n2)
         IN  IF o2 > o1 /\ LitAt(s, c1, <<" ", "+">>) /\ n2 > n1
                /\ LitAt(s, c2, <<" ", "@", "@">>)
             THEN [ok |-> TRUE,
                   old |-> ParseInt(SubSeq(s, o1, o2 - 1), 0),
                   new |-> ParseInt(SubSeq(s, n1, n2 - 1), 0)]
             ELSE NoMatch

\* line.match(...): the leftmost match, and parseInt of its two groups
ParseHunkHeader(line) ==
    LET hits == {p \in 1..Len(line) : HeaderMatchAt(line, p).ok} IN
    IF hits = {} THEN NoMatch
    ELSE HeaderMatchAt(line, CHOOSE p \in hits : \A q \in hits : p <= q)

\* Diff.diffWords(oldText, newText) of the diff library: the words the two
\* texts share at their start are one unchanged part, the rest of the old
\* text is a removed part and the rest of the new text an added part
RECURSIVE CommonWords(_, _)
CommonWords(ws1, ws2) ==
    IF ws1 # <<>> /\ ws2 # <<>> /\ Head(ws1) = Head(ws2)
    THEN 1 + CommonWords(Tail(ws1), Tail(ws2)) ELSE 0

Part(value, added, removed) == [value |-> value, added |-> added, removed |-> removed]

DiffWords(oldText, newText) ==
    IF oldText = newText
    THEN IF oldText = <<>> THEN <<>> ELSE <<Part(oldText, FALSE, FALSE)>>
    ELSE LET ws1 == Split(oldText, " ")
             ws2 == Split(newText, " ")
             k   == CommonWords(ws1, ws2)
             same == IF k = 0 THEN <<>>
                     ELSE Join(SubSeq(ws1, 1, k), " ")
                          \o (IF k < Len(ws1) \/ k < Len(ws2) THEN <<" ">> ELSE <<>>)
             gone == IF k < Len(ws1) THEN Join(SubSeq(ws1, k + 1, Len(ws1)), " ") ELSE <<>>
             come == IF k < Len(ws2) THEN Join(SubSeq(ws2, k + 1, Len(ws2)), " ") ELSE <<>>
         IN  (IF same = <<>> THEN <<>> ELSE <<Part(same, FALSE, FALSE)>>)
             \o (IF gone = <<>> THEN <<>> ELSE <<Part(gone, FALSE, TRUE)>>)
             \o (IF come = <<>> THEN <<>> ELSE <<Part(come, TRUE, FALSE)>>)

Span(cls, text) == [cls |-> cls, text |-> text]

\* span.innerHTML = highlightCode(text, fileExt, filename)
Highlighted(text) == Span("highlighted", text)

\* changes.forEach of renderModifiedLine
RECURSIVE ModifiedSpans(_, _)
ModifiedSpans(changes, isRemoved) ==
    IF changes = <<>> THEN <<>>
    ELSE LET part == Head(changes)
             rest == ModifiedSpans(Tail(changes), isRemoved)
         IN  IF isRemoved /\ part.removed THEN <<Span("ct-word-removed", part.value)>> \o rest
             ELSE IF ~isRemoved /\ part.added THEN <<Span("ct-word-added", part.value)>> \o rest
             ELSE IF ~part.added /\ ~part.removed THEN <<Highlighted(part.value)>> \o rest
             ELSE rest

Row(cls, oldNum, newNum, content, src) ==
    [cls |-> cls, oldNum |-> oldNum, newNum |-> newNum, content |-> content, src |-> src]

\* faulty variant: the row of a removed line is filled like the row of an added line
renderModifiedLineAsAdded(type, oldNum, newNum, changes, isRemoved, src) ==
    Row(type, oldNum, newNum, ModifiedSpans(changes, FALSE), src)

\* the row appended by renderModifiedLine
renderModifiedLine(type, oldNum, newNum, changes, isRemoved, src) ==
    Row(type, oldNum, newNum, ModifiedSpans(changes, isRemoved), src)

\* faulty variant: a line with an unknown prefix is drawn as a context row
renderNormalLineUnknownAsContext(line, oldLineNum, newLineNum, src) ==
    LET content == IF Substring1(line) = <<>> THEN <<Span("blank", <<" ">>)>>
                   ELSE <<Highlighted(Substring1(line))>>
    IN  IF StartsWith(line, <<"+">>) THEN <<Row("added", <<>>, <<newLineNum>>, content, src)>>
        ELSE IF StartsWith(line, <<"-">>)
        THEN <<Row("removed", <<oldLineNum>>, <<>>, content, src)>>
        ELSE <<Row("context", <<oldLineNum>>, <<newLineNum>>, content, src)>>

\* the rows appended by renderNormalLine: one, or none for an unknown prefix
renderNormalLine(line, oldLineNum, newLineNum, src) ==
    LET content == IF Substring1(line) = <<>> THEN <<Span("blank", <<" ">>)>>
                   ELSE <<Highlighted(Substring1(line))>>
    IN  IF StartsWith(line, <<"+">>) THEN <<Row("added", <<>>, <<newLineNum>>, content, src)>>
        ELSE IF StartsWith(line, <<"-">>)
        THEN <<Row("removed", <<oldLineNum>>, <<>>, content, src)>>
        ELSE IF StartsWith(line, <<" ">>)
        THEN <<Row("context", <<oldLineNum>>, <<newLineNum>>, content, src)>>
        ELSE <<>>

SeparatorRow(src) == Row("separator", <<>>, <<>>, <<Span("ct-diff-separator-cell", <<>>)>>, src)

\* the while loops: the number of lines from j on that start with sign and
\* not with three of it
RECURSIVE RunLength(_, _, _)
RunLength(lines, j, sign) ==
    IF j <= Len(lines) /\ StartsWith(lines[j], <<sign>>)
       /\ ~StartsWith(lines[j], <<sign, sign, sign>>)
    THEN 1 + RunLength(lines, j + 1, sign) ELSE 0

\* faulty variant: the added row of a pair shows the new counter after the increment
PairedRowsPreIncrement(lines, i, n, oldLineNum, newLineNum) ==
    [k \in 1..(2 * n) |->
        IF k <= n
        THEN renderModifiedLine("removed", <<oldLineNum + k - 1>>, <<>>,
                 DiffWords(Substring1(lines[i + k - 1]), Substring1(lines[i + n + k - 1])),
                 TRUE, i + k - 1)
        ELSE renderModifiedLine("added", <<>>, <<newLineNum + (k - n)>>,
                 DiffWords(Substring1(lines[i + k - n - 1]), Substring1(lines[i + k - 1])),
                 FALSE, i + k - 1)]

\* faulty variant: a paired modification draws its added rows only
PairedRowsAddedOnly(lines, i, n, oldLineNum, newLineNum) ==
    [k \in 1..n |->
        renderModifiedLine("added", <<>>, <<newLineNum + k - 1>>,
            DiffWords(Substring1(lines[i + k - 1]), Substring1(lines[i + n + k - 1])),
            FALSE, i + n + k - 1)]

\* the two for loops of a paired modification: removed = lines i..i+n-1,
\* added = lines i+n..i+2n-1
PairedRows(lines, i, n, oldLineNum, newLineNum) ==
    [k \in 1..(2 * n) |->
        IF k <= n
        THEN renderModifiedLine("removed", <<oldLineNum + k - 1>>, <<>>,
                 DiffWords(Substring1(lines[i + k - 1]), Substring1(lines[i + n + k - 1])),
                 TRUE, i + k - 1)
        ELSE renderModifiedLine("added", <<>>, <<newLineNum + (k - n) - 1>>,
                 DiffWords(Substring1(lines[i + k - n - 1]), Substring1(lines[i + k - 1])),
                 FALSE, i + k - 1)]

\* the for loop of renderDiff from line i on
RECURSIVE RenderLoop(_, _, _, _, _, _)
RenderLoop(lines, i, oldLineNum, newLineNum, sectionCount, rows) ==
    IF i > Len(lines) THEN rows
    ELSE LET line == lines[i] IN
    IF StartsWith(line, <<"@", "@">>)
    THEN LET match == ParseHunkHeader(line) IN
         RenderLoop(lines, i + 1,
                    IF match.ok THEN match.old ELSE oldLineNum,
                    IF match.ok THEN match.new ELSE newLineNum,
                    sectionCount + 1,
                    IF sectionCount + 1 > 1 THEN Append(rows, SeparatorRow(i)) ELSE rows)
    ELSE IF StartsWith(line, <<"+", "+", "+">>) \/ StartsWith(line, <<"-", "-", "-">>)
            \/ StartsWith(line, <<"\\">>)
    THEN RenderLoop(lines, i + 1, oldLineNum, newLineNum, sectionCount, rows)
    ELSE LET removed == IF StartsWith(line, <<"-">>) THEN RunLength(lines, i, "-") ELSE 0
             added   == IF StartsWith(line, <<"-">>)
                        THEN RunLength(lines, i + removed, "+") ELSE 0
         IN  IF removed > 0 /\ removed = added
             THEN RenderLoop(lines, i + removed + added,
                             oldLineNum + removed, newLineNum + added, sectionCount,
                             rows \o PairedRows(lines, i, removed, oldLineNum, newLineNum))
             ELSE RenderLoop(lines, i + 1,
                             IF StartsWith(line, <<"-">>) \/ StartsWith(line, <<" ">>)
                             THEN oldLineNum + 1 ELSE oldLineNum,
                             IF StartsWith(line, <<"+">>) \/ StartsWith(line, <<" ">>)
                             THEN newLineNum + 1 ELSE newLineNum,
                             sectionCount,
                             rows \o renderNormalLine(line, oldLineNum, newLineNum, i))

Placeholder == [el |-> "ct-diff-empty", rows |-> <<>>]

Table(rows) == [el |-> "ct-diff-table", rows |-> rows]

\* faulty variant: only null is taken for a missing diff
renderDiffNullOnly(cont, diff) ==
    IF diff = Null THEN <<Placeholder>>
    ELSE Append(cont, Table(RenderLoop(Split(diff, "\n"), 1, 0, 0, 0, <<>>)))

\* faulty variant: a separator row is drawn before the first hunk as well
renderDiffLeadingSeparator(cont, diff) ==
    IF IsFalsy(diff) THEN <<Placeholder>>
    ELSE Append(cont, Table(<<SeparatorRow(0)>>
                            \o RenderLoop(Split(diff, "\n"), 1, 0, 0, 0, <<>>)))

\* the children of the container after renderDiff(container, diffContent, filePath)
renderDiff(cont, diff) ==
    IF IsFalsy(diff) THEN <<Placeholder>>
    ELSE Append(cont, Table(RenderLoop(Split(diff, "\n"), 1, 0, 0, 0, <<>>)))

(***************************************************************************)
(* renderDiff as an operation                                              *)
(***************************************************************************)
HunkHeader12 == <<"@", "@", " ", "-", "1", ",", "2", " ", "+", "1", ",", "3", " ", "@", "@">>
HunkHeader1020 == <<"@", "@", " ", "-", "1", "0", " ", "+", "2", "0", " ", "@", "@">>
ContextLine == <<" ", "c">>
RemovedLine == <<"-", "a", " ", "b">>
AddedLine == <<"+", "a", " ", "c">>
AddedLine2 == <<"+", "d">>
OldFileLine == <<"-", "-", "-", " ", "a">>

DiffLines ==
    {HunkHeader12, HunkHeader1020, ContextLine, RemovedLine, AddedLine, AddedLine2,
     OldFileLine}

DiffInputs == {Null, <<>>} \cup {Join(ls, "\n") : ls \in SeqsUpTo(DiffLines, 1, MaxLines)}

DiffInit ==
    /\ diffContent \in DiffInputs
    /\ container = <<>>
    /\ diffPc = "ready"
    /\ OnlyDiff

\* renderDiff(container, diffContent, filePath) on a new container element
RenderDiffCall ==
    /\ diffPc = "ready"
    /\ container' = renderDiff(container, diffContent)
    /\ diffPc' = "rendered"
    /\ UNCHANGED <<diffContent, restOfDiff>>

DiffNext == RenderDiffCall

SpecDiff == DiffInit /\ [][DiffNext]_vars

(***************************************************************************)
(* Claims on renderDiff                                                    *)
(***************************************************************************)
\* the lines of the rendered text
DiffTextLines == Split(diffContent, "\n")

\* the rows of the table that renderDiff has drawn, separators left out
DrawnRows ==
    IF diffPc = "rendered" /\ container # <<>>
       /\ container[Len(container)].el = "ct-diff-table"
    THEN SelectSeq(container[Len(container)].rows, LAMBDA r : r.cls # "separator")
    ELSE <<>>

\* the drawn rows of the lines lo..hi
RowsOf(lo, hi) == SelectSeq(DrawnRows, LAMBDA r : r.src >= lo /\ r.src <= hi)

Numbering(rows) ==
    [k \in 1..Len(rows) |->
        [cls |-> rows[k].cls, oldNum |-> rows[k].oldNum, newNum |-> rows[k].newNum,
         src |-> rows[k].src]]

\* the numbering read off the text line by line, every line on its own:
\* a header sets the counters, a removed row shows old and advances it, an
\* added row shows new and advances it, a context row does both
RECURSIVE PlainNumbering(_, _, _, _)
PlainNumbering(lines, i, old, new) ==
    IF i > Len(lines) THEN <<>>
    ELSE LET line == lines[i] IN
    IF StartsWith(line, <<"@", "@">>)
    THEN IF ParseHunkHeader(line).ok
         THEN PlainNumbering(lines, i + 1, ParseHunkHeader(line).old, ParseHunkHeader(line).new)
         ELSE PlainNumbering(lines, i + 1, old, new)
    ELSE IF IsDeletionLine(line)
    THEN <<[cls |-> "removed", oldNum |-> <<old>>, newNum |-> <<>>, src |-> i]>>
         \o PlainNumbering(lines, i + 1, old + 1, new)
    ELSE IF IsAdditionLine(line)
    THEN <<[cls |-> "added", oldNum |-> <<>>, newNum |-> <<new>>, src |-> i]>>
         \o PlainNumbering(lines, i + 1, old, new + 1)
    ELSE IF Len(line) >= 1 /\ line[1] = " "
    THEN <<[cls |-> "context", oldNum |-> <<old>>, newNum |-> <<new>>, src |-> i]>>
         \o PlainNumbering(lines, i + 1, old + 1, new + 1)
    ELSE PlainNumbering(lines, i + 1, old, new)

\* '@@ -1,2 +1,3 @@' followed by one context, one removed and two added lines
C7_Example ==
    Join(<<HunkHeader12, ContextLine, RemovedLine, AddedLine, AddedLine2>>, "\n")

NumberCells(rows) == [k \in 1..Len(rows) |-> <<rows[k].oldNum, rows[k].newNum>>]

\* C7: the counters are set from each hunk header (old := a, new := c), the
\* old counter is shown on removed and context rows and the new counter on
\* added and context rows, each row advancing the counters it shows; the
\* numbers are those of a line-by-line numbering whether or not a run is
\* drawn as a paired modification, and the example rows carry (1,1), (2,-),
\* (-,2), (-,3).
C7_LineNumbers ==
    (diffPc = "rendered" /\ ~(diffContent = Null \/ diffContent = <<>>)) =>
        /\ Numbering(DrawnRows) = PlainNumbering(DiffTextLines, 1, 0, 0)
        /\ diffContent = C7_Example =>
               NumberCells(DrawnRows) =
                   << <<<<1>>, <<1>>>>, <<<<2>>, <<>>>>, <<<<>>, <<2>>>>, <<<<>>, <<3>>>> >>
        /\ diffContent = Join(<<HunkHeader1020, ContextLine>>, "\n") =>
               NumberCells(DrawnRows) = << <<<<10>>, <<20>>>> >>

\* the example has been rendered
C7_Witness ==
    /\ diffPc = "rendered"
    /\ diffContent = C7_Example
    /\ Len(DrawnRows) = 4

\* the parts of a word diff shown on one side, as spans
SideSpans(changes, side) ==
    LET kept == SelectSeq(changes,
                    LAMBDA p : IF side = "removed" THEN ~p.added ELSE ~p.removed)
    IN  [k \in 1..Len(kept) |->
            IF kept[k].removed THEN [cls |-> "ct-word-removed", text |-> kept[k].value]
            ELSE IF kept[k].added THEN [cls |-> "ct-word-added", text |-> kept[k].value]
            ELSE [cls |-> "highlighted", text |-> kept[k].value]]

\* lines i..i+n-1 are removed lines, lines i+n..i+2n-1 are added lines and
\* the line after them is not an added line
EqualRunsAt(lines, i, n) ==
    /\ n >= 1 /\ i + 2 * n - 1 <= Len(lines)
    /\ \A k \in i..(i + n - 1) : IsDeletionLine(lines[k])
    /\ \A k \in (i + n)..(i + 2 * n - 1) : IsAdditionLine(lines[k])
    /\ (i + 2 * n <= Len(lines) => ~IsAdditionLine(lines[i + 2 * n]))

\* C8: a run of n >= 1 removed lines immediately followed by a run of exactly
\* n added lines is drawn as n removed rows followed by n added rows; row k of
\* each side is built from the word diff of removed[k] against added[k], the
\* removed row keeping the unchanged and removed parts, the added row the
\* unchanged and added parts, and only the unchanged parts are highlighted.
C8_PairedRows ==
    (diffPc = "rendered" /\ ~(diffContent = Null \/ diffContent = <<>>)) =>
        \A i \in 1..Len(DiffTextLines), n \in 1..Len(DiffTextLines) :
            EqualRunsAt(DiffTextLines, i, n) =>
                LET rs == RowsOf(i, i + 2 * n - 1)
                    words(k) == DiffWords(Substring1(DiffTextLines[i + k - 1]),
                                          Substring1(DiffTextLines[i + n + k - 1]))
                IN  /\ Len(rs) = 2 * n
                    /\ \A k \in 1..n :
                          /\ rs[k].cls = "removed" /\ rs[k].src = i + k - 1
                          /\ rs[k].content = SideSpans(words(k), "removed")
                          /\ rs[n + k].cls = "added" /\ rs[n + k].src = i + n + k - 1
                          /\ rs[n + k].content = SideSpans(words(k), "added")

\* two removed lines followed by two different added lines have been drawn
C8_Witness ==
    /\ diffPc = "rendered"
    /\ diffContent # Null
    /\ \E i \in 1..Len(DiffTextLines) :
          /\ EqualRunsAt(DiffTextLines, i, 2)
          /\ DiffTextLines[i + 2] # DiffTextLines[i + 3]
          /\ \E k \in 1..Len(DrawnRows) :
                /\ DrawnRows[k].src = i
                /\ \E j \in 1..Len(DrawnRows[k].content) :
                      DrawnRows[k].content[j].cls = "ct-word-removed"

\* the lengths of the longest runs of removed and of added lines from j on
DeletionRun(lines, j) ==
    Cardinality({k \in j..Len(lines) : \A m \in j..k : IsDeletionLine(lines[m])})

AdditionRun(lines, j) ==
    Cardinality({k \in j..Len(lines) : \A m \in j..k : IsAdditionLine(lines[m])})

\* the content cell of a row drawn without word diff
PlainContent(line) ==
    IF Len(line) = 1 THEN <<[cls |-> "blank", text |-> <<" ">>]>>
    ELSE <<[cls |-> "highlighted", text |-> SubSeq(line, 2, Len(line))]>>

\* C9: when a maximal run of removed lines is immediately followed by a
\* maximal run of added lines of another length, every line of both runs is
\* drawn as a plain removed or added row, without word-level spans.
C9_UnequalRunsStayPlain ==
    (diffPc = "rendered" /\ ~(diffContent = Null \/ diffContent = <<>>)) =>
        \A i \in 1..Len(DiffTextLines) :
            LET r == DeletionRun(DiffTextLines, i)
                a == AdditionRun(DiffTextLines, i + r)
            IN  (/\ r >= 1 /\ a >= 1 /\ r # a
                 /\ (i > 1 => ~IsDeletionLine(DiffTextLines[i - 1])))
                => LET rs == RowsOf(i, i + r + a - 1) IN
                   /\ Len(rs) = r + a
                   /\ \A k \in 1..(r + a) :
                         /\ rs[k].src = i + k - 1
                         /\ rs[k].cls = (IF k <= r THEN "removed" ELSE "added")
                         /\ rs[k].content = PlainContent(DiffTextLines[i + k - 1])

\* C10: renderDiff with null or the empty string puts the empty-diff
\* placeholder in the container and draws no table.
C10_EmptyDiffPlaceholder ==
    (diffPc = "rendered" /\ (diffContent = Null \/ diffContent = <<>>)) =>
        /\ container = <<[el |-> "ct-diff-empty", rows |-> <<>>]>>
        /\ \A k \in 1..Len(container) : container[k].el # "ct-diff-table"

\* the empty string has been rendered
C10_Witness ==
    /\ diffPc = "rendered"
    /\ diffContent = <<>>
    /\ container # <<>>

\* every row of the table that renderDiff has drawn, separators included
TableRows ==
    IF diffPc = "rendered" /\ container # <<>>
       /\ container[Len(container)].el = "ct-diff-table"
    THEN container[Len(container)].rows
    ELSE <<>>

\* the lines of the rendered text that open a hunk
HunkHeaderLines == {i \in 1..Len(DiffTextLines) : StartsWith(DiffTextLines[i], <<"@", "@">>)}

SeparatorRows == {k \in 1..Len(TableRows) : TableRows[k].cls = "separator"}

\* C11: renderDiff draws one separator row for each hunk header but the
\* first: h headers give max(h - 1, 0) separators, none of them for the first
\* header, and each one stands after every row of the lines before its header
\* and before every row of the lines after it.
C11_Separators ==
    (diffPc = "rendered" /\ ~IsFalsy(diffContent)) =>
        /\ Cardinality(SeparatorRows) =
              (IF HunkHeaderLines = {} THEN 0 ELSE Cardinality(HunkHeaderLines) - 1)
        /\ \A k \in SeparatorRows :
              /\ TableRows[k].src \in HunkHeaderLines
              /\ \E h \in HunkHeaderLines : h < TableRows[k].src
              /\ \A j \in 1..Len(TableRows) :
                    /\ j < k => TableRows[j].src < TableRows[k].src
                    /\ j > k => TableRows[j].src > TableRows[k].src

\* two hunks with rows of their own have been rendered with a separator
\* between them
C11_Witness ==
    /\ diffPc = "rendered"
    /\ Cardinality(HunkHeaderLines) = 2
    /\ \E k \in SeparatorRows : k > 1 /\ k < Len(TableRows)

(***************************************************************************)
(* extractDiffFromGitLabHTML                                               *)
(*                                                                         *)
(* The parsed document is the sequence of its .line_holder elements.  An   *)
(* element is [content, text, oldAttr, newAttr, classes]: content tells    *)
(* whether it has a .line_content cell, text is that cell's textContent,   *)
(* oldAttr / newAttr are the data-linenumber attributes of its .old_line / *)
(* .new_line cells (Null when the cell or the attribute is missing) and    *)
(* classes is its class list.  A line number is <<n>>, null is <<>>.       *)
(***************************************************************************)
MaxHolders == 3

NoNum == <<>>

IsSpace(c) == c \in {" ", "\t", "\n"}

\* num.trim() === ''
IsBlank(s) == \A i \in 1..Len(s) : IsSpace(s[i])

RECURSIVE SkipSpaces(_, _)
SkipSpaces(s, p) == IF p <= Len(s) /\ IsSpace(s[p]) THEN SkipSpaces(s, p + 1) ELSE p

\* parseInt(s, 10): leading white space, an optional sign, the longest run of
\* digits; NaN without a digit
ParseIntPrefix(s) ==
    LET p == SkipSpaces(s, 1)
        signed == p <= Len(s) /\ s[p] \in {"-", "+"}
        d == IF signed THEN p + 1 ELSE p
        e == DigitsEnd(s, d)
    IN  IF e = d THEN [nan |-> TRUE, val |-> 0]
        ELSE [nan |-> FALSE,
              val |-> IF signed /\ s[p] = "-" THEN 0 - ParseInt(SubSeq(s, d, e - 1), 0)
                      ELSE ParseInt(SubSeq(s, d, e - 1), 0)]

\* the template literal ${n} of a number
RECURSIVE ToDecimal(_)
ToDecimal(n) ==
    IF n < 0 THEN <<"-">> \o ToDecimal(0 - n)
    ELSE IF n < 10 THEN <<Digits[n + 1]>>
    ELSE ToDecimal(n \div 10) \o <<Digits[(n % 10) + 1]>>

getLineNum(attr) ==
    IF attr = Null \/ attr = <<>> \/ IsBlank(attr) THEN NoNum
    ELSE IF ParseIntPrefix(attr).nan THEN NoNum
    ELSE <<ParseIntPrefix(attr).val>>

\* text.replace(/\n/g, '')
RemoveNewlines(text) == SelectSeq(text, LAMBDA c : c # "\n")

NoNewlineMarker ==
    <<"\\", " ", "N", "o", " ", "n", "e", "w", "l", "i", "n", "e", " ", "a", "t", " ",
      "e", "n", "d", " ", "o", "f", " ", "f", "i", "l", "e">>

\* faulty variant: the '@@' lines of the document are not left out
IsSkippedMarkerOnly(h) ==
    \/ ~h.content
    \/ StartsWith(RemoveNewlines(h.text), NoNewlineMarker)

\* the two early returns of the forEach callback
IsSkipped(h) ==
    \/ ~h.content
    \/ StartsWith(RemoveNewlines(h.text), NoNewlineMarker)
    \/ StartsWith(RemoveNewlines(h.text), <<"@", "@">>)

LineType(h) ==
    IF "old" \in h.classes THEN "removed"
    ELSE IF "new" \in h.classes THEN "added"
    ELSE "context"

LinePrefix(type) == IF type = "removed" THEN "-" ELSE IF type = "added" THEN "+" ELSE " "

\* prev !== null && num !== null && num > prev + 1
Jumps(prev, num) == prev # NoNum /\ num # NoNum /\ num[1] > prev[1] + 1

\* num || 1
OrOne(num) == IF num = NoNum \/ num[1] = 0 THEN 1 ELSE num[1]

NewSection(oldNum, newNum) ==
    [oldStart |-> OrOne(oldNum), newStart |-> OrOne(newNum),
     oldCount |-> 0, newCount |-> 0, lines |-> <<>>]

\* faulty variant: a context line is counted on the old side only
AddCountsContextOld(sec, type) ==
    IF type = "added" THEN [sec EXCEPT !.newCount = @ + 1]
    ELSE [sec EXCEPT !.oldCount = @ + 1]

\* the counters of the section after one more line of the type
AddCounts(sec, type) ==
    IF type = "removed" THEN [sec EXCEPT !.oldCount = @ + 1]
    ELSE IF type = "added" THEN [sec EXCEPT !.newCount = @ + 1]
    ELSE [sec EXCEPT !.oldCount = @ + 1, !.newCount = @ + 1]

\* faulty variant: the number of the last line that had one is kept
NextPrevKeepLast(prev, num) == IF num = NoNum THEN prev ELSE num

\* prevOldNum = oldNum; prevNewNum = newNum
NextPrev(prev, num) == num

\* the forEach over the line holders from element i on; cur is the sequence
\* of the zero or one section that is open
RECURSIVE ExtractLoop(_, _, _, _, _, _)
ExtractLoop(holders, i, sections, cur, prevOldNum, prevNewNum) ==
    IF i > Len(holders) THEN sections \o cur
    ELSE LET h == holders[i] IN
    IF IsSkipped(h)
    THEN ExtractLoop(holders, i + 1, sections, cur, prevOldNum, prevNewNum)
    ELSE LET text == RemoveNewlines(h.text)
             oldNum == getLineNum(h.oldAttr)
             newNum == getLineNum(h.newAttr)
             type == LineType(h)
             hasJump == Jumps(prevOldNum, oldNum) \/ Jumps(prevNewNum, newNum)
             opens == hasJump \/ cur = <<>>
             section == IF opens THEN NewSection(oldNum, newNum) ELSE cur[1]
             withLine == [section EXCEPT !.lines = Append(@, <<LinePrefix(type)>> \o text)]
         IN  ExtractLoop(holders, i + 1,
                         IF opens THEN sections \o cur ELSE sections,
                         <<AddCounts(withLine, type)>>,
                         NextPrev(prevOldNum, oldNum), NextPrev(prevNewNum, newNum))

\* `@@ -${s.oldStart},${s.oldCount} +${s.newStart},${s.newCount} @@`
HeaderText(oldStart, oldCount, newStart, newCount) ==
    <<"@", "@", " ", "-">> \o ToDecimal(oldStart) \o <<",">> \o ToDecimal(oldCount)
    \o <<" ", "+">> \o ToDecimal(newStart) \o <<",">> \o ToDecimal(newCount)
    \o <<" ", "@", "@">>

SectionText(s) ==
    HeaderText(s.oldStart, s.oldCount, s.newStart, s.newCount)
    \o <<"\n">> \o Join(s.lines, "\n")

extractDiffFromGitLabHTML(holders) ==
    LET sections == ExtractLoop(holders, 1, <<>>, <<>>, NoNum, NoNum) IN
    IF Len(sections) = 0 THEN <<>>
    ELSE Join([k \in 1..Len(sections) |-> SectionText(sections[k])], "\n")

(***************************************************************************)
(* The fetched HTML of a file is extracted and rendered                    *)
(***************************************************************************)
Holder(classes, oldAttr, newAttr, text) ==
    [content |-> TRUE, text |-> text, oldAttr |-> oldAttr, newAttr |-> newAttr,
     classes |-> classes]

Context55 == Holder({}, <<"5">>, <<"5">>, <<"c", "\n">>)
Context66 == Holder({}, <<"6">>, <<"6">>, <<"d">>)
Added2019 == Holder({"new"}, <<"2", "0">>, <<"1", "9">>, <<"x">>)
Added6 == Holder({"new"}, Null, <<"6">>, <<"a", " ", "c">>)
Removed6 == Holder({"old"}, <<"6">>, <<>>, <<"a", " ", "b">>)
Removed20 == Holder({"old"}, <<"2", "0">>, Null, <<"r">>)
ContextBadNumber == Holder({}, <<"x">>, <<" ", "7", " ">>, <<>>)
MatchLine == Holder({"match"}, Null, Null, <<"@", "@", " ", "-", "1", " ", "+", "1", " ", "@", "@">>)
NoNewlineLine == Holder({}, Null, Null, NoNewlineMarker)
NoContentCell ==
    [content |-> FALSE, text |-> <<>>, oldAttr |-> Null, newAttr |-> Null, classes |-> {}]

LineHolders ==
    {Context55, Context66, Added2019, Added6, Removed6, Removed20, ContextBadNumber,
     MatchLine, NoNewlineLine, NoContentCell}

HtmlInit ==
    /\ htmlHolders \in SeqsUpTo(LineHolders, 0, MaxHolders)
    /\ extracted = Null
    /\ htmlPanel = <<>>
    /\ htmlPc = "ready"
    /\ OnlyHtml

\* the continuation of showFileInPreview after fetchDiffForPath: the loading
\* indicator is removed, the diff extracted from diffData.html and rendered
ShowFetchedDiff ==
    /\ htmlPc = "ready"
    /\ extracted' = extractDiffFromGitLabHTML(htmlHolders)
    /\ htmlPanel' = renderDiff(htmlPanel, extractDiffFromGitLabHTML(htmlHolders))
    /\ htmlPc' = "rendered"
    /\ UNCHANGED <<htmlHolders, restOfHtml>>

HtmlNext == ShowFetchedDiff

SpecHtml == HtmlInit /\ [][HtmlNext]_vars

(***************************************************************************)
(* Claims on extractDiffFromGitLabHTML                                     *)
(***************************************************************************)
\* a line holder that is a diff line: it has a content cell whose text,
\* newlines dropped, is neither the no-newline marker nor a '@@' line
Recognizable(h) ==
    /\ h.content
    /\ LET t == SelectSeq(h.text, LAMBDA c : c # "\n") IN
       /\ ~(Len(t) >= Len(NoNewlineMarker) /\ SubSeq(t, 1, Len(NoNewlineMarker)) = NoNewlineMarker)
       /\ ~(Len(t) >= 2 /\ t[1] = "@" /\ t[2] = "@")

\* the diff lines of the document, in document order
Recognized == SelectSeq(htmlHolders, Recognizable)

OldNumberOf(k) == getLineNum(Recognized[k].oldAttr)
NewNumberOf(k) == getLineNum(Recognized[k].newAttr)

\* the lines of the extracted text
OutLines == IF htmlPc # "rendered" \/ extracted = <<>> THEN <<>> ELSE Split(extracted, "\n")

IsHeaderLine(l) == Len(l) >= 2 /\ l[1] = "@" /\ l[2] = "@"

HeaderIdx == {j \in 1..Len(OutLines) : IsHeaderLine(OutLines[j])}

\* the number of lines among the first j of the extracted text that are not headers
BodyBefore(j) == Cardinality({i \in 1..j : ~IsHeaderLine(OutLines[i])})

\* the diff lines (by position among the diff lines) at which a hunk is opened
Openers == {BodyBefore(j) + 1 : j \in HeaderIdx}

\* the diff line before line k that is the last one to carry a number in the column
LastNumbered(k, NumberOf(_)) ==
    LET js == {j \in 1..(k - 1) : NumberOf(j) # NoNum} IN
    IF js = {} THEN NoNum
    ELSE NumberOf(CHOOSE j \in js : \A i \in js : i <= j)

\* two context lines (5,5) and (6,6), then an added line with old=20, new=19
C12_Example == <<Context55, Context66, Added2019>>

\* C12 as stated: a hunk is opened at a diff line exactly when none is open
\* yet or its old (resp. new) number is more than 1 greater than the old
\* (resp. new) number of the last preceding diff line that carries a number in
\* that column; the example gives two headers.
C12_JumpFromLastNumbered ==
    htmlPc = "rendered" =>
        /\ BodyBefore(Len(OutLines)) = Len(Recognized)
        /\ \A k \in 1..Len(Recognized) :
              (k \in Openers) <=>
                  \/ k = 1
                  \/ Jumps(LastNumbered(k, OldNumberOf), OldNumberOf(k))
                  \/ Jumps(LastNumbered(k, NewNumberOf), NewNumberOf(k))
        /\ (htmlHolders = C12_Example => Cardinality(HeaderIdx) = 2)

\* C12 amended: a hunk is opened at a diff line exactly when none is open yet
\* or the line and the diff line directly before it both carry an old (resp.
\* new) number and the line's number is more than 1 greater; every other diff
\* line is appended to the open hunk; the example gives two headers.
C12_JumpFromPreviousLine ==
    htmlPc = "rendered" =>
        /\ BodyBefore(Len(OutLines)) = Len(Recognized)
        /\ \A k \in 1..Len(Recognized) :
              (k \in Openers) <=>
                  \/ k = 1
                  \/ (k > 1 /\ Jumps(OldNumberOf(k - 1), OldNumberOf(k)))
                  \/ (k > 1 /\ Jumps(NewNumberOf(k - 1), NewNumberOf(k)))
        /\ (htmlHolders = C12_Example => Cardinality(HeaderIdx) = 2)

\* a removed line numbered 20 follows an added line without an old number
\* that follows a line numbered 5: no hunk is opened at it
C12_Witness ==
    /\ htmlPc = "rendered"
    /\ Len(Recognized) = 3
    /\ OldNumberOf(1) = <<5>> /\ OldNumberOf(2) = NoNum /\ OldNumberOf(3) = <<20>>
    /\ Openers = {1}

\* the last line of the hunk whose header is line j of the extracted text
HunkEnd(j) ==
    LET later == {i \in HeaderIdx : i > j} IN
    IF later = {} THEN Len(OutLines)
    ELSE (CHOOSE i \in later : \A l \in later : i <= l) - 1

\* the number of lines of that hunk that start with one of the characters
PrefixCount(j, chars) ==
    Cardinality({i \in (j + 1)..HunkEnd(j) : Len(OutLines[i]) >= 1 /\ OutLines[i][1] \in chars})

\* the k-th line of the extracted text that is not a header
BodyLine(k) == OutLines[CHOOSE i \in 1..Len(OutLines) : ~IsHeaderLine(OutLines[i]) /\ BodyBefore(i) = k]

ClassPrefix(h) == IF "old" \in h.classes THEN "-" ELSE IF "new" \in h.classes THEN "+" ELSE " "

StartOf(num) == IF num = NoNum THEN 1 ELSE num[1]

C14_EmptyIffNoLine ==
    htmlPc = "rendered" =>
        /\ (extracted = <<>>) <=> (Len(Recognized) = 0)
        /\ extracted # <<>> =>
              /\ HeaderIdx # {}
              /\ IsHeaderLine(OutLines[1])
              /\ \A j \in HeaderIdx : j < Len(OutLines) /\ ~IsHeaderLine(OutLines[j + 1])
        /\ extracted = <<>> => htmlPanel = <<[el |-> "ct-diff-empty", rows |-> <<>>]>>

\* a document with line holders, none of them a diff line, has been shown
C14_Witness ==
    /\ htmlPc = "rendered"
    /\ Len(htmlHolders) >= 2
    /\ extracted = <<>>
    /\ htmlPanel # <<>>

(***************************************************************************)
(* buildFileTree on records of every status                                *)
(***************************************************************************)
\* paths that share the folders a and a/b, a file path (a/b/a) that is also
\* a folder of another path, and chains of single-child folders
StatusPaths ==
    {<<"a", "/", "a">>,
     <<"a", "/", "b", "/", "a">>, <<"a", "/", "b", "/", "b">>,
     <<"a", "/", "b", "/", "a", "/", "b">>}

StatusRecords ==
    {[path |-> p, status |-> s, diff_content |-> Null] :
        p \in StatusPaths, s \in {"added", "deleted", "modified", NullStatus}}

TreeStatusInit ==
    /\ files \in SeqsUpTo(StatusRecords, 0, MaxFiles)
    /\ tree = NoTree
    /\ treePc = "ready"
    /\ OnlyTree

SpecTreeStatus == TreeStatusInit /\ [][TreeNext]_vars

\* the input files placed beneath the folder of the path, in input order
PlacedBeneath(folderPath) ==
    {i \in 1..Len(files) :
        /\ Len(files[i].path) > Len(folderPath) + 1
        /\ SubSeq(files[i].path, 1, Len(folderPath) + 1) = folderPath \o <<"/">>}

\* 'modified' if a file beneath the folder is modified, otherwise the status
\* of the first file beneath it that has one
StatusFromFiles(folderPath) ==
    LET beneath == PlacedBeneath(folderPath)
        withStatus == {i \in beneath : files[i].status # NullStatus}
    IN  IF \E i \in beneath : files[i].status = "modified" THEN "modified"
        ELSE IF withStatus = {} THEN NullStatus
        ELSE files[CHOOSE i \in withStatus : \A j \in withStatus : i <= j].status

\* every folder below the node has the status its files give it; prefix is
\* the sequence of the names from the root down to the node
RECURSIVE StatusesFromFiles(_, _)
StatusesFromFiles(node, prefix) ==
    \A i \in 1..Len(node.children) :
        LET child == node.children[i].node IN
        child.type = "folder" =>
            /\ child.status = StatusFromFiles(Join(Append(prefix, child.name), "/"))
            /\ StatusesFromFiles(child, Append(prefix, child.name))

\* every folder of the chain that was merged into a folder below the node had
\* the status of the merged folder before the collapse pass
RECURSIVE ChainsKeepStatus(_, _, _)
ChainsKeepStatus(node, prefix, raw) ==
    \A i \in 1..Len(node.children) :
        LET child == node.children[i].node
            above == IF prefix = <<>> THEN <<>> ELSE Split(Join(prefix, "/"), "/")
            segs == Split(Join(Append(prefix, child.name), "/"), "/")
        IN  child.type = "folder" =>
                /\ \A n \in (Len(above) + 1)..Len(segs) :
                      /\ Walk(raw, SubSeq(segs, 1, n)) # NoTree
                      /\ Walk(raw, SubSeq(segs, 1, n)).status = child.status
                /\ ChainsKeepStatus(child, Append(prefix, child.name), raw)

\* C15: in the tree that buildFileTree returns, every folder below the root
\* has status 'modified' if a file placed beneath it is modified, otherwise
\* the status of the first file in input order placed beneath it that has a
\* status (null if none); a folder merged from a chain has the status that
\* every folder of the chain had before the merge.
C15_FolderStatus ==
    treePc = "returned" =>
        /\ StatusesFromFiles(tree, <<>>)
        /\ StatusesFromFiles(BuildRaw(files), <<>>)
        /\ ChainsKeepStatus(tree, <<>>, BuildRaw(files))

\* a merged folder keeps 'added' from the first file although a later file
\* beneath it is 'deleted', and another folder is 'modified' by a later file
C15_Witness ==
    /\ treePc = "returned"
    /\ Len(files) = 3
    /\ files[1].status = "added" /\ files[2].status = "deleted"
    /\ files[3].status = "modified"
    /\ \E f \in FoldersBelow(tree) :
          /\ \E c \in 1..Len(f.name) : f.name[c] = "/"
          /\ f.status = "added"
    /\ \E f \in FoldersBelow(tree) : f.status = "modified"

(***************************************************************************)
(* highlightCode                                                           *)
(*                                                                         *)
(* The content is a sequence of characters; extensions, filenames and      *)
(* language names are strings.  The value returned is [value, language]:   *)
(* value is the HTML that is returned and language (not part of the value) *)
(* is the language handed to hljs.highlight, NoLanguage when the           *)
(* highlighter is not called.                                              *)
(***************************************************************************)
NoLanguage == "<none>"

\* fileLanguageMapping[filename] of a filename that the object does not have
Undefined == "<undefined>"

\* a member of Object.prototype: a function or an object, never a string
Inherited == "<Object.prototype member>"

fileLanguageMapping ==
    [n \in {".gitignore", ".gitattributes", ".gitmodules", ".dockerignore",
            ".editorconfig", ".npmrc", ".yarnrc", ".env", ".env.example", ".env.local",
            ".env.production", ".env.development", ".mailmap"} |-> "ini"]
    @@ [n \in {"package-lock.json", "composer.lock", "Pipfile.lock", ".eslintrc",
               ".prettierrc", ".babelrc", ".stylelintrc", "tsconfig.json",
               "jsconfig.json"} |-> "json"]
    @@ [n \in {"yarn.lock", "pnpm-lock.yaml", "docker-compose.yml", "docker-compose.yaml",
               "phpstan.dist.neon"} |-> "yaml"]
    @@ [n \in {"poetry.lock", "Cargo.lock"} |-> "toml"]
    @@ ("Gemfile.lock" :> "properties") @@ (".git-blame-ignore-revs" :> "plaintext")
    @@ ("Makefile" :> "makefile") @@ ("Dockerfile" :> "dockerfile")

\* the property names that an object literal inherits
ObjectPrototypeKeys ==
    {"constructor", "toString", "valueOf", "hasOwnProperty", "isPrototypeOf",
     "propertyIsEnumerable", "toLocaleString", "__proto__"}

\* fileLanguageMapping[filename]
TableLookup(filename) ==
    IF filename \in DOMAIN fileLanguageMapping THEN fileLanguageMapping[filename]
    ELSE IF filename \in ObjectPrototypeKeys THEN Inherited
    ELSE Undefined

\* the languages and aliases of the highlight.js registry that the names of
\* the model can reach, and the language registered by registerOmnisLanguage
HljsLanguages ==
    {"javascript", "json", "yaml", "ini", "properties", "plaintext", "makefile",
     "dockerfile", "omh"}

HljsAliases ==
    ("js" :> "javascript") @@ ("yml" :> "yaml") @@ ("toml" :> "ini")
    @@ ("txt" :> "plaintext") @@ ("mk" :> "makefile") @@ ("docker" :> "dockerfile")

\* name.toLowerCase() on the names of the model
LowerCase(name) ==
    IF name = "Dockerfile" THEN "dockerfile"
    ELSE IF name = "Makefile" THEN "makefile"
    ELSE name

\* hljs.getLanguage(name) is truthy, for a string name
HljsKnows(name) ==
    \/ LowerCase(name) \in HljsLanguages
    \/ LowerCase(name) \in DOMAIN HljsAliases

EscapeChar(c) ==
    IF c = "&" THEN <<"&", "a", "m", "p", ";">>
    ELSE IF c = "<" THEN <<"&", "l", "t", ";">>
    ELSE IF c = ">" THEN <<"&", "g", "t", ";">>
    ELSE <<c>>

\* div.textContent = text; return div.innerHTML
escapeHtml(text) == ConcatAll([i \in 1..Len(text) |-> EscapeChar(text[i])])

\* result.value of hljs.highlight(content, {language}): markup of the language
HljsValue(content, language) == <<"<span class=hljs ", language, ">">> \o escapeHtml(content)

Escaped(content) == [value |-> escapeHtml(content), language |-> NoLanguage]

\* the TypeError of (name || '').toLowerCase() on a name that is no string
NotAString == "<TypeError>"

\* faulty variant: the filename table is consulted before the extension
ChooseLanguageTableFirst(fileExt, filename) ==
    IF TableLookup(filename) = Inherited THEN NotAString
    ELSE IF TableLookup(filename) # Undefined /\ HljsKnows(TableLookup(filename))
    THEN TableLookup(filename)
    ELSE IF HljsKnows(fileExt) THEN fileExt
    ELSE NoLanguage

\* lines 20-32: the language highlightCode goes on with, NoLanguage when it
\* returns the escaped content, NotAString when hljs.getLanguage is handed a
\* value without toLowerCase and its TypeError leaves highlightCode
ChooseLanguage(fileExt, filename) ==
    IF HljsKnows(fileExt) THEN fileExt
    ELSE IF TableLookup(filename) = Undefined THEN NoLanguage
    ELSE IF TableLookup(filename) = Inherited THEN NotAString
    ELSE IF HljsKnows(TableLookup(filename)) THEN TableLookup(filename)
    ELSE NoLanguage

\* Thrown when an exception leaves highlightCode
highlightCode(content, fileExt, filename, throws) ==
    IF IsBlank(content) THEN Escaped(content)
    ELSE LET language == ChooseLanguage(fileExt, filename) IN
         IF language = NotAString THEN Thrown
         ELSE IF language = NoLanguage THEN Escaped(content)
         ELSE IF throws THEN [value |-> escapeHtml(content), language |-> language]
         ELSE [value |-> HljsValue(content, language), language |-> language]

HlContents == {<<>>, <<" ", "\n">>, <<"x">>, <<"a", "<", "b", "&">>}

HlFileExts == {"", "js", "json", "lock", "Dockerfile", "tostring", "xyz"}

HlFilenames ==
    {"", "app.js", "Dockerfile", "yarn.lock", "package-lock.json", "Gemfile.lock",
     "notes.xyz", "toString"}

HlInit ==
    /\ hlContent \in HlContents
    /\ hlFileExt \in HlFileExts
    /\ hlFilename \in HlFilenames
    /\ hljsThrows \in BOOLEAN
    /\ hlOut = Null
    /\ hlPc = "ready"
    /\ OnlyHl

\* highlightCode(content, fileExt, filename) returns
HighlightCodeReturns ==
    /\ hlPc = "ready"
    /\ highlightCode(hlContent, hlFileExt, hlFilename, hljsThrows) # Thrown
    /\ hlOut' = highlightCode(hlContent, hlFileExt, hlFilename, hljsThrows)
    /\ hlPc' = "returned"
    /\ UNCHANGED <<hlContent, hlFileExt, hlFilename, hljsThrows, restOfHl>>

\* a TypeError leaves highlightCode(content, fileExt, filename)
HighlightCodeThrows ==
    /\ hlPc = "ready"
    /\ highlightCode(hlContent, hlFileExt, hlFilename, hljsThrows) = Thrown
    /\ hlOut' = Thrown
    /\ hlPc' = "threw"
    /\ UNCHANGED <<hlContent, hlFileExt, hlFilename, hljsThrows, restOfHl>>

HlNext == HighlightCodeReturns \/ HighlightCodeThrows

SpecHl == HlInit /\ [][HlNext]_vars

(***************************************************************************)
(* Claims on highlightCode                                                 *)
(***************************************************************************)
\* the filename has an entry of its own in the fixed table
HasTableEntry(filename) == filename \in DOMAIN fileLanguageMapping

\* the language of the extension is registered / the language the table
\* gives for the filename is registered
ExtensionRegistered == HljsKnows(hlFileExt)
TableRegistered == HasTableEntry(hlFilename) /\ HljsKnows(fileLanguageMapping[hlFilename])

\* the call has returned for content that is not blank, the highlighter not throwing
ReturnedForCode == hlPc = "returned" /\ ~IsBlank(hlContent) /\ ~hljsThrows

C17_NeverThrows ==
    /\ hlPc # "threw"
    /\ hlPc = "returned" =>
          /\ IsBlank(hlContent) =>
                hlOut.value = escapeHtml(hlContent) /\ hlOut.language = NoLanguage
          /\ (~ExtensionRegistered /\ ~TableRegistered) \/ hljsThrows =>
                hlOut.value = escapeHtml(hlContent)

(***************************************************************************)
(* processFilesFromApiResponse                                             *)
(*                                                                         *)
(* diffData is [kind, diffs]: null (kind "null"), an array of diff entries *)
(* (kind "array"), an object with that array as its diffs property (kind   *)
(* "object") or an object without a diffs property (kind "bare").  A       *)
(* missing path of an entry is Null.                                       *)
(***************************************************************************)
MaxEntries == 2

NullData == [kind |-> "null", diffs |-> <<>>]

\* an object without a diffs property
BareObject == [kind |-> "bare", diffs |-> <<>>]

\* faulty variant: deleted_file is looked at before new_file
StatusOfDeletedFirst(diff) ==
    IF diff.deleted_file THEN "deleted"
    ELSE IF diff.new_file THEN "added"
    ELSE IF diff.renamed_file THEN "renamed"
    ELSE "modified"

\* the conditional chain that gives the status
StatusOf(diff) ==
    IF diff.new_file THEN "added"
    ELSE IF diff.deleted_file THEN "deleted"
    ELSE IF diff.renamed_file THEN "renamed"
    ELSE "modified"

\* a || b on strings
OrElse(a, b) == IF IsFalsy(a) THEN b ELSE a

\* Boolean(diff.diff && diff.diff.trim())
HasDiff(diff) == ~IsFalsy(diff.diff) /\ ~IsBlank(diff.diff)

\* the array that forEach runs over
DiffsToProcess(data, compare) ==
    IF data.kind = "array" THEN data.diffs
    ELSE IF compare /\ data.kind = "object" THEN data.diffs
    ELSE <<>>

\* diffsToProcess.forEach from the entry at index (zero-based) on
RECURSIVE ProcessLoop(_, _, _)
ProcessLoop(diffs, index, fileData) ==
    IF index >= Len(diffs) THEN fileData
    ELSE LET diff == diffs[index + 1] IN
         IF ~IsFalsy(diff.new_path) \/ ~IsFalsy(diff.old_path)
         THEN ProcessLoop(diffs, index + 1,
                  Append(fileData,
                         [path |-> OrElse(diff.new_path, diff.old_path),
                          old_path |-> diff.old_path,
                          diff_index |-> index,
                          status |-> StatusOf(diff),
                          diff_content |-> diff.diff,
                          has_diff_content |-> HasDiff(diff),
                          ref |-> Null]))
         ELSE ProcessLoop(diffs, index + 1, fileData)

processFilesFromApiResponse(data, compare) ==
    IF data.kind = "null" THEN <<>>
    ELSE ProcessLoop(DiffsToProcess(data, compare), 0, <<>>)

\* entries without a path, with both paths, with an empty new_path and with
\* a new_path only, under every combination of the three flags
DiffEntries ==
    {[new_path |-> p[1], old_path |-> p[2], new_file |-> n, deleted_file |-> d,
      renamed_file |-> r, diff |-> <<"+", "x">>] :
        p \in {<<Null, Null>>, <<<<"a">>, <<"b">>>>, <<<<>>, <<"b">>>>, <<<<"a">>, Null>>},
        n \in BOOLEAN, d \in BOOLEAN, r \in BOOLEAN}

ApiInputs ==
    {NullData, BareObject}
    \cup {[kind |-> k, diffs |-> ds] :
             k \in {"array", "object"}, ds \in SeqsUpTo(DiffEntries, 0, MaxEntries)}

ApiInit ==
    /\ diffData \in ApiInputs
    /\ isComparePage \in BOOLEAN
    /\ apiFiles = <<>>
    /\ apiPc = "ready"
    /\ OnlyApi

\* const files = processFilesFromApiResponse(diffData, isComparePage)
ProcessFilesCall ==
    /\ apiPc = "ready"
    /\ apiFiles' = processFilesFromApiResponse(diffData, isComparePage)
    /\ apiPc' = "returned"
    /\ UNCHANGED <<diffData, isComparePage, restOfApi>>

ApiNext == ProcessFilesCall

SpecApi == ApiInit /\ [][ApiNext]_vars

(***************************************************************************)
(* Claims on processFilesFromApiResponse                                   *)
(***************************************************************************)
\* the raw list of entries: the array itself, or the diffs of the object of
\* a compare page
RawList ==
    IF diffData.kind = "array" THEN diffData.diffs
    ELSE IF isComparePage /\ diffData.kind = "object" THEN diffData.diffs
    ELSE <<>>

Present(path) == path # Null /\ path # <<>>

\* the positions in the raw list of the entries that have a path, in order
WithPath ==
    SelectSeq([i \in 1..Len(RawList) |-> i],
              LAMBDA i : Present(RawList[i].new_path) \/ Present(RawList[i].old_path))

\* C18: processFilesFromApiResponse returns, in input order, exactly one
\* record per raw entry that has a new_path or an old_path (entries with
\* neither are skipped, null gives the empty list), with path the new_path
\* when present and else the old_path, diff_index the entry's index in the
\* raw list, and status from the first flag set among new_file ('added'),
\* deleted_file ('deleted'), renamed_file ('renamed'), 'modified' with none.
C18_RecordsPerEntry ==
    apiPc = "returned" =>
        /\ diffData.kind = "null" => apiFiles = <<>>
        /\ Len(apiFiles) = Len(WithPath)
        /\ \A k \in 1..Len(WithPath) :
              LET entry == RawList[WithPath[k]] IN
              /\ apiFiles[k].diff_index = WithPath[k] - 1
              /\ apiFiles[k].path =
                     (IF Present(entry.new_path) THEN entry.new_path ELSE entry.old_path)
              /\ apiFiles[k].status =
                     (IF entry.new_file THEN "added"
                      ELSE IF entry.deleted_file THEN "deleted"
                      ELSE IF entry.renamed_file THEN "renamed"
                      ELSE "modified")

\* an entry without a path came first and was skipped; the record of the
\* second entry, which has several flags set and no new_path, was returned
C18_Witness ==
    /\ apiPc = "returned"
    /\ Len(RawList) = 2
    /\ Len(apiFiles) = 1
    /\ apiFiles[1].diff_index = 1
    /\ RawList[2].new_file /\ RawList[2].deleted_file
    /\ apiFiles[1].path = <<"b">>

(***************************************************************************)
(* setupPreviewSearch                                                      *)
(*                                                                         *)
(* A .ct-line-content cell is the sequence of its text nodes in document   *)
(* order (highlighted code and word-diff spans give a cell several nodes); *)
(* its textContent is their concatenation.  A match is [cell, node,        *)
(* offset, len]: the cell, the text node and offset that findTextNode      *)
(* returns for match.index, and match[0].length.                           *)
(***************************************************************************)
MaxCells == 2

CellText(cell) == ConcatAll(cell)

\* the case folding of the 'i' flag on the letters of the model
FoldCase(c) == IF c = "A" THEN "a" ELSE IF c = "B" THEN "b" ELSE c

\* the escaped query, a literal, stands in the text at position p (one-based)
MatchesAt(text, query, p) ==
    /\ p + Len(query) - 1 <= Len(text)
    /\ \A k \in 1..Len(query) : FoldCase(text[p + k - 1]) = FoldCase(query[k])

\* match.index of the successive regex.exec calls from position p on
RECURSIVE ExecAll(_, _, _)
ExecAll(text, query, p) ==
    IF p + Len(query) - 1 > Len(text) THEN <<>>
    ELSE IF MatchesAt(text, query, p)
    THEN <<p - 1>> \o ExecAll(text, query, p + Len(query))
    ELSE ExecAll(text, query, p + 1)

\* findTextNode(cell, targetIndex) from node k on, currentIndex characters before it
RECURSIVE findTextNode(_, _, _, _)
findTextNode(cell, targetIndex, k, currentIndex0) ==
    IF k > Len(cell) THEN [node |-> 0, offset |-> 0]
    ELSE IF currentIndex0 + Len(cell[k]) > targetIndex
    THEN [node |-> k, offset |-> targetIndex - currentIndex0]
    ELSE findTextNode(cell, targetIndex, k + 1, currentIndex0 + Len(cell[k]))

\* the matches of one cell in the order of the while loop
CellMatches(cells, c, query) ==
    LET found == ExecAll(CellText(cells[c]), query, 1) IN
    [k \in 1..Len(found) |->
        [cell |-> c,
         node |-> findTextNode(cells[c], found[k], 1, 0).node,
         offset |-> findTextNode(cells[c], found[k], 1, 0).offset,
         len |-> Len(query)]]

\* range.setEnd(node, offset + length) throws IndexSizeError when the offset
\* is greater than the length of the node
RangeFits(cells, match) == match.offset + match.len <= Len(cells[match.cell][match.node])

RECURSIVE FitPrefix(_, _, _)
FitPrefix(cells, matches, k) ==
    IF k > Len(matches) \/ ~RangeFits(cells, matches[k]) THEN SubSeq(matches, 1, k - 1)
    ELSE FitPrefix(cells, matches, k + 1)

\* s.trim()
RECURSIVE TrimEnd(_)
TrimEnd(s) == IF s # <<>> /\ IsSpace(s[Len(s)]) THEN TrimEnd(SubSeq(s, 1, Len(s) - 1)) ELSE s

Trim(s) == TrimEnd(SubSeq(s, SkipSpaces(s, 1), Len(s)))

\* `${i}/${n}`
CounterText(i, n) == ToDecimal(i) \o <<"/">> \o ToDecimal(n)

\* every match of the query in the cells for which findTextNode finds a node
AllMatches(cells, query) ==
    ConcatAll([c \in 1..Len(cells) |->
                  IF CellText(cells[c]) = <<>> THEN <<>>
                  ELSE SelectSeq(CellMatches(cells, c, query), LAMBDA m : m.node # 0)])

\* the state in which performSearch leaves the closure: [currentMatches,
\* currentIndex, counter], and whether an exception ended it
performSearch(cells, value, oldCounter) ==
    LET query == Trim(value)
        all == AllMatches(cells, query)
        pushed == FitPrefix(cells, all, 1)
    IN  IF query = <<>>
        THEN [currentMatches |-> <<>>, currentIndex |-> -1,
              counter |-> CounterText(0, 0), threw |-> FALSE]
        ELSE IF Len(pushed) < Len(all)
        THEN [currentMatches |-> pushed, currentIndex |-> -1,
              counter |-> oldCounter, threw |-> TRUE]
        ELSE IF Len(pushed) > 0
        THEN [currentMatches |-> pushed, currentIndex |-> 0,
              counter |-> CounterText(1, Len(pushed)), threw |-> FALSE]
        ELSE [currentMatches |-> <<>>, currentIndex |-> -1,
              counter |-> CounterText(0, 0), threw |-> FALSE]

\* cells of one text node, a cell whose text 'a b' is split over two nodes,
\* and a cell without text
PanelCellChoices ==
    {<<<<"a", " ", "b">>>>, <<<<"A", "b", "a">>>>, <<<<"a">>, <<" ", "b">>>>, <<>>}

SearchQueries == {<<>>, <<" ">>, <<"a">>, <<"a", " ", "b">>, <<"b", " ">>, <<"x">>}

\* the state that setupPreviewSearch leaves, over a preview with content
SearchInit ==
    /\ panelCells \in SeqsUpTo(PanelCellChoices, 0, MaxCells)
    /\ searchValue = <<>>
    /\ searchTimer = FALSE
    /\ currentMatches = <<>>
    /\ currentIndex = -1
    /\ counter = CounterText(0, 0)
    /\ searchBar = "none"
    /\ OnlySearch

\* the input event: the value changes and the debounced search is (re)armed
InputQuery ==
    /\ searchBar # "absent"
    /\ \E q \in SearchQueries : searchValue' = q
    /\ searchTimer' = TRUE
    /\ UNCHANGED <<panelCells, currentMatches, currentIndex, counter, searchBar, restOfSearch>>

\* the debounce timer fires and performSearch runs to its end
PerformSearchCompletes ==
    /\ searchTimer
    /\ ~performSearch(panelCells, searchValue, counter).threw
    /\ searchTimer' = FALSE
    /\ currentMatches' = performSearch(panelCells, searchValue, counter).currentMatches
    /\ currentIndex' = performSearch(panelCells, searchValue, counter).currentIndex
    /\ counter' = performSearch(panelCells, searchValue, counter).counter
    /\ UNCHANGED <<panelCells, searchValue, searchBar, restOfSearch>>

\* the debounce timer fires and range.setEnd throws inside performSearch
PerformSearchThrows ==
    /\ searchTimer
    /\ performSearch(panelCells, searchValue, counter).threw
    /\ searchTimer' = FALSE
    /\ currentMatches' = performSearch(panelCells, searchValue, counter).currentMatches
    /\ currentIndex' = performSearch(panelCells, searchValue, counter).currentIndex
    /\ counter' = performSearch(panelCells, searchValue, counter).counter
    /\ UNCHANGED <<panelCells, searchValue, searchBar, restOfSearch>>

\* scrollToMatch(index) on the closure state
ScrollToMatch(index) ==
    IF index < 0 \/ index >= Len(currentMatches)
    THEN UNCHANGED <<currentIndex, counter>>
    ELSE /\ currentIndex' = index
         /\ counter' = CounterText(index + 1, Len(currentMatches))

\* btnNext.onclick, Enter
NextMatch ==
    /\ searchBar # "absent"
    /\ IF Len(currentMatches) = 0 THEN UNCHANGED <<currentIndex, counter>>
       ELSE ScrollToMatch((currentIndex + 1) % Len(currentMatches))
    /\ UNCHANGED <<panelCells, searchValue, searchTimer, currentMatches, searchBar,
                   restOfSearch>>

\* btnPrev.onclick, Shift+Enter
PrevMatch ==
    /\ searchBar # "absent"
    /\ IF Len(currentMatches) = 0 THEN UNCHANGED <<currentIndex, counter>>
       ELSE ScrollToMatch(IF currentIndex - 1 < 0 THEN Len(currentMatches) - 1
                          ELSE currentIndex - 1)
    /\ UNCHANGED <<panelCells, searchValue, searchTimer, currentMatches, searchBar,
                   restOfSearch>>

\* toggleSearchBar(true): Ctrl+F or Cmd+F
OpenSearchBar ==
    /\ searchBar # "absent"
    /\ searchBar' = "block"
    /\ IF Trim(searchValue) # <<>>
       THEN /\ currentMatches' = performSearch(panelCells, searchValue, counter).currentMatches
            /\ currentIndex' = performSearch(panelCells, searchValue, counter).currentIndex
            /\ counter' = performSearch(panelCells, searchValue, counter).counter
       ELSE UNCHANGED <<currentMatches, currentIndex, counter>>
    /\ UNCHANGED <<panelCells, searchValue, searchTimer, restOfSearch>>

\* toggleSearchBar(false): the close button or Escape
CloseSearchBar ==
    /\ searchBar = "block"
    /\ searchBar' = "none"
    /\ currentMatches' = <<>>
    /\ currentIndex' = -1
    /\ counter' = CounterText(0, 0)
    /\ searchValue' = <<>>
    /\ UNCHANGED <<panelCells, searchTimer, restOfSearch>>

SearchNext ==
    \/ InputQuery
    \/ PerformSearchCompletes
    \/ PerformSearchThrows
    \/ NextMatch
    \/ PrevMatch
    \/ OpenSearchBar
    \/ CloseSearchBar

SpecSearch == SearchInit /\ [][SearchNext]_vars

(***************************************************************************)
(* Claims on the preview search                                            *)
(***************************************************************************)
\* the number of matches of the query in the text of the cells
Occurrences(query) ==
    SumSeq([c \in 1..Len(panelCells) |-> Len(ExecAll(CellText(panelCells[c]), query, 1))])

\* the counter reads (i+1)/n with 0 <= i < n, and 0/0 without a match
CounterShows(i, n, text) ==
    IF n = 0 THEN text = <<"0", "/", "0">>
    ELSE i >= 0 /\ i < n /\ text = ToDecimal(i + 1) \o <<"/">> \o ToDecimal(n)

\* one step of the search as the claim describes it
C19_Step ==
    /\ CounterShows(currentIndex', Len(currentMatches'), counter')
    /\ (PerformSearchCompletes \/ PerformSearchThrows) =>
          LET query == Trim(searchValue)
              n == Occurrences(query)
          IN  IF query = <<>> \/ n = 0
              THEN currentMatches' = <<>> /\ counter' = <<"0", "/", "0">>
              ELSE /\ Len(currentMatches') = n
                   /\ currentIndex' = 0
                   /\ counter' = <<"1", "/">> \o ToDecimal(n)
    /\ NextMatch =>
          IF Len(currentMatches) = 0 THEN UNCHANGED <<currentMatches, currentIndex, counter>>
          ELSE currentIndex' = (currentIndex + 1) % Len(currentMatches)
    /\ PrevMatch =>
          IF Len(currentMatches) = 0 THEN UNCHANGED <<currentMatches, currentIndex, counter>>
          ELSE currentIndex' = (currentIndex - 1 + Len(currentMatches)) % Len(currentMatches)

\* C19: after a query with n >= 1 matches the current index is 0 and the
\* counter reads 1/n; next moves the index to (i+1) mod n and previous to
\* (i-1) mod n; the counter always reads (i+1)/n with 0 <= i < n; with no
\* match or an empty query it reads 0/0 and next and previous change nothing.
C19_SearchNavigation == [][C19_Step]_vars

(***************************************************************************)
(* Folder items of a rendered tree: click, automatic expansion of a        *)
(* single child folder, expandAllFolders and collapseAllFolders            *)
(***************************************************************************)
MaxFolders == 3

\* pending setTimeout callbacks per folder item, capped
MaxTimers == 2

\* The folder items of the tree view in document order.  Item f is the
\* record [parent, hasFiles]: parent is the item it is rendered beneath
\* (0 at level 0), hasFiles tells whether the folder holds a file.
FolderItems(shape) == 1..Len(shape)

ChildFolders(shape, f) == {g \in FolderItems(shape) : shape[g].parent = f}

RECURSIVE AncestorsOrSelf(_, _)
AncestorsOrSelf(shape, f) ==
    IF f = 0 THEN {} ELSE {f} \cup AncestorsOrSelf(shape, shape[f].parent)

\* renderTree appends an item, then the container with its children: the
\* items stand in pre-order, and a folder is rendered with at least one child
RenderedShape(shape) ==
    /\ \A f \in FolderItems(shape) :
          /\ shape[f].parent < f
          /\ f > 1 => shape[f].parent \in {0} \cup AncestorsOrSelf(shape, f - 1)
          /\ ChildFolders(shape, f) = {} => shape[f].hasFiles

FolderShapes ==
    {shape \in UNION {[1..n -> [parent : 0..(MaxFolders - 1), hasFiles : BOOLEAN]]
                        : n \in 1..MaxFolders} : RenderedShape(shape)}

\* childFolders.length === 1 && Object.values(child.children).length === 1
HasSingleChildFolder(shape, f) ==
    ~shape[f].hasFiles /\ Cardinality(ChildFolders(shape, f)) = 1

\* childContainer.querySelector('.tree-item.folder'): the first folder item
\* beneath f
SubFolderItem(shape, f) == CHOOSE g \in ChildFolders(shape, f) :
                               \A h \in ChildFolders(shape, f) : g <= h

\* autoExpandSingleChild: a timeout that clicks the chevron of the
\* sub-folder is set when the sub-folder is not expanded at this moment
autoExpandSingleChild(shape, st, f) ==
    IF HasSingleChildFolder(shape, f) /\ SubFolderItem(shape, f) \notin st.expanded
    THEN [st EXCEPT !.timers[SubFolderItem(shape, f)] = @ + 1]
    ELSE st

\* the click handler running the automatic expansion whatever
\* isProgrammaticToggle says
FolderClickAlwaysAuto(shape, st, f, isProgrammaticToggle) ==
    IF f \in st.expanded
    THEN [st EXCEPT !.expanded = @ \ {f}]
    ELSE autoExpandSingleChild(shape, [st EXCEPT !.expanded = @ \cup {f}], f)

\* treeContainer.onclick on a folder item (every rendered folder item is
\* followed by its children container)
FolderClick(shape, st, f, isProgrammaticToggle) ==
    IF f \in st.expanded
    THEN [st EXCEPT !.expanded = @ \ {f}]
    ELSE LET open == [st EXCEPT !.expanded = @ \cup {f}]
         IN  IF ~isProgrammaticToggle THEN autoExpandSingleChild(shape, open, f)
             ELSE open

\* items.forEach(item => chevron.click()) over a static list of items, with
\* isProgrammaticToggle set
RECURSIVE ClickEach(_, _, _, _)
ClickEach(shape, st, items, k) ==
    IF k > Len(items) THEN st
    ELSE ClickEach(shape, FolderClick(shape, st, items[k], TRUE), items, k + 1)

\* querySelectorAll result in document order: the items of 1..n in set s
RECURSIVE InDocumentOrder(_, _)
InDocumentOrder(n, s) ==
    IF n = 0 THEN <<>>
    ELSE InDocumentOrder(n - 1, s) \o (IF n \in s THEN <<n>> ELSE <<>>)

Reverse(s) == [i \in 1..Len(s) |-> s[Len(s) + 1 - i]]

expandAllFolders(shape, st) ==
    ClickEach(shape, st,
              InDocumentOrder(Len(shape), FolderItems(shape) \ st.expanded), 1)

collapseAllFolders(shape, st) ==
    ClickEach(shape, st,
              Reverse(InDocumentOrder(Len(shape), st.expanded)), 1)

FolderState == [expanded |-> expanded, timers |-> timers]

\* an item can be clicked by the user when every folder above it is open
Visible(shape, f) ==
    AncestorsOrSelf(shape, shape[f].parent) \subseteq expanded

\* renderTree: level-0 folders are expanded (filter = ''), every displayed
\* folder is expanded (filter # '')
FolderInit ==
    /\ folderShape \in FolderShapes
    /\ expanded \in {{f \in FolderItems(folderShape) : folderShape[f].parent = 0},
                     FolderItems(folderShape)}
    /\ timers = [f \in FolderItems(folderShape) |-> 0]
    /\ lastCall = "renderTree"
    /\ OnlyFolder

\* the user clicks the content of a visible folder item
ClickFolder(f) ==
    /\ lastCall # "idle"
    /\ f \in FolderItems(folderShape)
    /\ Visible(folderShape, f)
    /\ LET st == FolderClick(folderShape, FolderState, f, FALSE)
       IN  /\ \A g \in FolderItems(folderShape) : st.timers[g] <= MaxTimers
           /\ expanded' = st.expanded
           /\ timers' = st.timers
    /\ lastCall' = "click"
    /\ UNCHANGED <<folderShape, restOfFolder>>

\* a timeout set by autoExpandSingleChild fires: chevron.click() on the
\* sub-folder item, whatever its state is by now
TimerFires(f) ==
    /\ lastCall # "idle"
    /\ f \in FolderItems(folderShape)
    /\ timers[f] > 0
    /\ LET st == FolderClick(folderShape,
                             [FolderState EXCEPT !.timers[f] = @ - 1], f, FALSE)
       IN  /\ \A g \in FolderItems(folderShape) : st.timers[g] <= MaxTimers
           /\ expanded' = st.expanded
           /\ timers' = st.timers
    /\ lastCall' = "timer"
    /\ UNCHANGED <<folderShape, restOfFolder>>

ExpandAllFolders ==
    /\ lastCall # "idle"
    /\ LET st == expandAllFolders(folderShape, FolderState)
       IN  expanded' = st.expanded /\ timers' = st.timers
    /\ lastCall' = "expandAllFolders"
    /\ UNCHANGED <<folderShape, restOfFolder>>

CollapseAllFolders ==
    /\ lastCall # "idle"
    /\ LET st == collapseAllFolders(folderShape, FolderState)
       IN  expanded' = st.expanded /\ timers' = st.timers
    /\ lastCall' = "collapseAllFolders"
    /\ UNCHANGED <<folderShape, restOfFolder>>

FolderNext ==
    \/ \E f \in 1..MaxFolders : ClickFolder(f)
    \/ \E f \in 1..MaxFolders : TimerFires(f)
    \/ ExpandAllFolders
    \/ CollapseAllFolders

SpecFolder == FolderInit /\ [][FolderNext]_vars

(***************************************************************************)
(* Claims on expandAllFolders and collapseAllFolders                       *)
(***************************************************************************)
C20_Step ==
    /\ lastCall' = "expandAllFolders" =>
          /\ expanded' = FolderItems(folderShape)
          /\ timers' = timers
    /\ lastCall' = "collapseAllFolders" =>
          /\ expanded' = {}
          /\ timers' = timers

\* C20: when expandAllFolders returns every folder item of the tree is
\* expanded, and when collapseAllFolders returns none is, whatever clicks,
\* timeouts and calls came before; neither call sets a timeout for the
\* automatic expansion of a single child folder.
C20_ExpandCollapseAll == [][C20_Step]_vars

\* expandAllFolders has returned on a tree with a folder whose only child is
\* a folder, while a timeout of an earlier click is still pending
C20_Witness ==
    /\ lastCall = "expandAllFolders"
    /\ expanded = FolderItems(folderShape)
    /\ \E f \in FolderItems(folderShape) :
          HasSingleChildFolder(folderShape, f) /\ timers[SubFolderItem(folderShape, f)] > 0

(***************************************************************************)
(* renderDiff on texts with file headers, no-newline markers, unknown      *)
(* prefixes and malformed hunk headers                                     *)
(***************************************************************************)
MaxOddLines == 3

HunkHeader37 == <<"@", "@", " ", "-", "3", " ", "+", "7", " ", "@", "@">>
\* starts with '@@' and does not match the pattern
MalformedHeader == <<"@", "@", " ", "-", "x", " ", "+", "1", " ", "@", "@">>
NewFileLine == <<"+", "+", "+", " ", "b">>
NoNewlineLineText == <<"\\", " ", "n">>
UnknownPrefixLine == <<"x", " ", "y">>

OddLines ==
    {HunkHeader37, MalformedHeader, ContextLine, RemovedLine, AddedLine,
     NewFileLine, OldFileLine, NoNewlineLineText, UnknownPrefixLine, <<>>}

OddInputs == {Join(ls, "\n") : ls \in SeqsUpTo(OddLines, 1, MaxOddLines)}

OddInit ==
    /\ diffContent \in OddInputs
    /\ container = <<>>
    /\ diffPc = "ready"
    /\ OnlyDiff

SpecDiffOdd == OddInit /\ [][DiffNext]_vars

(***************************************************************************)
(* Claims on the lines renderDiff does not draw                            *)
(***************************************************************************)
IsHunkHeaderLine(line) == StartsWith(line, <<"@", "@">>)

\* starts with '+++', '---' or a backslash, or with none of '+', '-', ' ', '@@'
DrawsNothing(line) ==
    \/ StartsWith(line, <<"+", "+", "+">>)
    \/ StartsWith(line, <<"-", "-", "-">>)
    \/ StartsWith(line, <<"\\">>)
    \/ ~(\/ StartsWith(line, <<"+">>) \/ StartsWith(line, <<"-">>)
         \/ StartsWith(line, <<" ">>) \/ IsHunkHeaderLine(line))

RowsFrom(i) == {k \in 1..Len(TableRows) : TableRows[k].src = i}

\* class and numbers of the rows, whatever line they come from
Cells(rows) ==
    [k \in 1..Len(rows) |->
        [cls |-> rows[k].cls, oldNum |-> rows[k].oldNum, newNum |-> rows[k].newNum]]

\* the text without the lines that draw nothing
Drawable(lines) == SelectSeq(lines, LAMBDA l : ~DrawsNothing(l))

\* C21: a line that starts with '+++', '---' or a backslash, and a line that
\* starts with none of '+', '-', ' ' and '@@', gives no row and changes no
\* counter (the table is, row for row, the table of the text without these
\* lines); every other line that is not a hunk header gives exactly one row.
C21_UndrawnLines ==
    (diffPc = "rendered" /\ ~IsFalsy(diffContent)) =>
        /\ \A i \in 1..Len(DiffTextLines) :
              /\ DrawsNothing(DiffTextLines[i]) => RowsFrom(i) = {}
              /\ (~DrawsNothing(DiffTextLines[i]) /\ ~IsHunkHeaderLine(DiffTextLines[i]))
                     => Cardinality(RowsFrom(i)) = 1
        /\ Cells(TableRows) = Cells(RenderLoop(Drawable(DiffTextLines), 1, 0, 0, 0, <<>>))

\* a no-newline marker between a hunk header and a context line, which
\* is drawn with the numbers of the header
C21_Witness ==
    /\ diffPc = "rendered"
    /\ diffContent = Join(<<HunkHeader37, NoNewlineLineText, ContextLine>>, "\n")
    /\ NumberCells(TableRows) = << <<<<3>>, <<7>>>> >>

(***************************************************************************)
(* Claims on malformed hunk headers                                        *)
(***************************************************************************)
IsMalformedHeader(line) == IsHunkHeaderLine(line) /\ ~ParseHunkHeader(line).ok

WellFormed(lines) == SelectSeq(lines, LAMBDA l : ~IsMalformedHeader(l))

NoSeparators(rows) == SelectSeq(rows, LAMBDA r : r.cls # "separator")

\* the number of rows before the k-th that show and advance the old counter
OldShownBefore(rows, k) ==
    Cardinality({j \in 1..(k - 1) : rows[j].cls \in {"removed", "context"}})

NewShownBefore(rows, k) ==
    Cardinality({j \in 1..(k - 1) : rows[j].cls \in {"added", "context"}})

MaxRequests == 3

\* the files of the r-th answer, told apart from those of every other answer
PageFiles(r, n) == [k \in 1..n |-> <<r, k>>]

\* response.headers.get('X-Next-Page'): absent, empty, or a page number
NextPageHeaders == {Null, <<>>} \cup {ToDecimal(p) : p \in 1..MaxRequests}

FailedResponse == [ok |-> FALSE, data |-> NullData, nextPage |-> Null]

\* the answers to the r-th request: !response.ok or a rejected fetch, or a
\* JSON body (an array, an object with diffs, an object without) and a header
PageResponses(r) ==
    {FailedResponse} \cup
    [ok : {TRUE},
     data : {[kind |-> k, diffs |-> PageFiles(r, n)] : k \in {"array", "object"}, n \in 0..2}
            \cup {BareObject},
     nextPage : NextPageHeaders]

\* currentFiles of one iteration
CurrentFiles(compare, apiData) ==
    IF ~compare /\ apiData.kind = "array" THEN apiData.diffs
    ELSE IF compare /\ apiData.kind = "object" THEN apiData.diffs
    ELSE <<>>

\* faulty variant: an empty page does not end the loop
HasMorePagesWhileHeader(currentFiles, nextPageHeaderVal) ==
    ~IsFalsy(nextPageHeaderVal)

\* hasMorePages at the end of an iteration
HasMorePages(currentFiles, nextPageHeaderVal) ==
    IF Len(currentFiles) = 0 /\ ~IsFalsy(nextPageHeaderVal) THEN FALSE
    ELSE ~IsFalsy(nextPageHeaderVal)

\* fetchAllFilesWithPagination(projectInfo, progressCallback, sha) is called
PagesInit ==
    /\ isComparePageInfo \in BOOLEAN
    /\ pageLog = <<>>
    /\ allFiles = <<>>
    /\ currentPageNum = 1
    /\ pagesPc = "looping"
    /\ OnlyPages

\* one iteration whose fetchSinglePage resolves; the function returns
\* allFiles when the loop ends
FetchPageResolves ==
    /\ pagesPc = "looping"
    /\ Len(pageLog) < MaxRequests
    /\ \E response \in PageResponses(Len(pageLog) + 1) :
          /\ response.ok
          /\ LET currentFiles == CurrentFiles(isComparePageInfo, response.data)
                 more == HasMorePages(currentFiles, response.nextPage)
             IN  /\ pageLog' = Append(pageLog, [page |-> currentPageNum, response |-> response])
                 /\ allFiles' = allFiles \o currentFiles
                 /\ currentPageNum' = IF IsFalsy(response.nextPage) THEN currentPageNum
                                      ELSE ParseIntPrefix(response.nextPage).val
                 /\ pagesPc' = IF more THEN "looping" ELSE "returned"
    /\ UNCHANGED <<isComparePageInfo, restOfPages>>

\* one iteration whose fetchSinglePage throws: the catch block throws again
FetchPageFails ==
    /\ pagesPc = "looping"
    /\ Len(pageLog) < MaxRequests
    /\ pageLog' = Append(pageLog, [page |-> currentPageNum, response |-> FailedResponse])
    /\ pagesPc' = "threw"
    /\ UNCHANGED <<isComparePageInfo, allFiles, currentPageNum, restOfPages>>

PagesNext == FetchPageResolves \/ FetchPageFails

SpecPages == PagesInit /\ [][PagesNext]_vars

(***************************************************************************)
(* Claims on fetchAllFilesWithPagination                                   *)
(***************************************************************************)
\* the files a page holds for this kind of page
FilesOf(entry) ==
    IF ~entry.response.ok THEN <<>>
    ELSE IF isComparePageInfo
    THEN (IF entry.response.data.kind = "object" THEN entry.response.data.diffs ELSE <<>>)
    ELSE (IF entry.response.data.kind = "array" THEN entry.response.data.diffs ELSE <<>>)

NamesPage(header, p) == header # Null /\ header # <<>> /\ header = ToDecimal(p)

\* a response after which nothing more is asked for
LastPage(entry) ==
    \/ entry.response.nextPage = Null
    \/ entry.response.nextPage = <<>>
    \/ FilesOf(entry) = <<>>

\* C23: page 1 is asked for first and then the page that each X-Next-Page
\* header names; no request follows a failed response or a response without
\* (or with an empty) header or with zero files; the function returns after
\* such a response with the files of all pages in request order, and a failed
\* request makes it throw instead of returning.
C23_Pagination ==
    /\ pageLog # <<>> => pageLog[1].page = 1
    /\ \A r \in 2..Len(pageLog) :
          /\ pageLog[r - 1].response.ok
          /\ ~LastPage(pageLog[r - 1])
          /\ NamesPage(pageLog[r - 1].response.nextPage, pageLog[r].page)
    /\ pagesPc = "returned" <=>
          (pageLog # <<>> /\ pageLog[Len(pageLog)].response.ok
                          /\ LastPage(pageLog[Len(pageLog)]))
    /\ pagesPc = "returned" =>
          allFiles = ConcatAll([r \in 1..Len(pageLog) |-> FilesOf(pageLog[r])])
    /\ pagesPc = "threw" <=>
          (pageLog # <<>> /\ ~pageLog[Len(pageLog)].response.ok)

\* three pages have been fetched, the first two with files and a header,
\* and the function has returned
C23_Witness ==
    /\ pagesPc = "returned"
    /\ Len(pageLog) = 3
    /\ pageLog[2].page = 2 /\ pageLog[3].page = 3
    /\ Len(allFiles) >= 3

(***************************************************************************)
(* debounce(func, wait)                                                    *)
(*                                                                         *)
(* A timer is pending from setTimeout(later, wait) until it is cleared or  *)
(* its callback runs; the callback runs when wait has elapsed.             *)
(***************************************************************************)
MaxCalls == 4

\* the values the debounced function is called with (the filter typed so far)
DebounceArgs == {<<"t">>, <<"t", "e">>}

\* clearTimeout(id)
ClearTimeout(pending, id) == {t \in pending : t.id # id}

\* faulty variant: the pending timer is not cleared by a new call
executedFunctionNoClear(pending, timeout, args, id) ==
    [timers |-> pending \cup {[id |-> id, args |-> args]}, timeout |-> id]

\* executedFunction(...args): clearTimeout(timeout); timeout = setTimeout(later, wait),
\* the new timer getting the identifier id
executedFunction(pending, timeout, args, id) ==
    [timers |-> ClearTimeout(pending, timeout) \cup {[id |-> id, args |-> args]},
     timeout |-> id]

\* const filterTree = debounce(func, 200)
DebounceInit ==
    /\ dbTimers = {}
    /\ dbTimeout = 0
    /\ dbLog = <<>>
    /\ OnlyDebounce

CallsSoFar == Cardinality({k \in 1..Len(dbLog) : dbLog[k].kind = "call"})

\* the debounced function is called (an input event); func is not invoked
\* by the call
CallDebounced(args) ==
    /\ dbTimeout >= 0
    /\ CallsSoFar < MaxCalls
    /\ LET after == executedFunction(dbTimers, dbTimeout, args, Len(dbLog) + 1)
       IN  dbTimers' = after.timers /\ dbTimeout' = after.timeout
    /\ dbLog' = Append(dbLog, [kind |-> "call", args |-> args])
    /\ UNCHANGED restOfDebounce

\* wait has elapsed for a pending timer: later() clears timeout and invokes
\* func with the args of the call that set the timer
LaterRuns(timer) ==
    /\ dbTimeout >= 0
    /\ timer \in dbTimers
    /\ dbTimers' = ClearTimeout(dbTimers \ {timer}, dbTimeout)
    /\ dbLog' = Append(dbLog, [kind |-> "invoke", args |-> timer.args])
    /\ UNCHANGED <<dbTimeout, restOfDebounce>>

DebounceNext ==
    \/ \E args \in DebounceArgs : CallDebounced(args)
    \/ \E timer \in dbTimers : LaterRuns(timer)

SpecDebounce == DebounceInit /\ [][DebounceNext]_vars

(***************************************************************************)
(* Claims on debounce                                                      *)
(***************************************************************************)
Invocations == SelectSeq(dbLog, LAMBDA ev : ev.kind = "invoke")

\* what holds of the calls and invocations so far
BurstsInvokedOnce ==
    /\ \A k \in 1..Len(dbLog) :
          dbLog[k].kind = "invoke" =>
             /\ k > 1
             /\ dbLog[k - 1].kind = "call"
             /\ dbLog[k - 1].args = dbLog[k].args
    /\ dbLog # <<>> /\ dbLog[Len(dbLog)].kind = "call" =>
          /\ Cardinality(dbTimers) = 1
          /\ \A timer \in dbTimers : timer.args = dbLog[Len(dbLog)].args
    /\ dbLog # <<>> /\ dbLog[Len(dbLog)].kind = "invoke" => dbTimers = {}

C24_Step ==
    /\ CallsSoFar' > CallsSoFar => Invocations' = Invocations
    /\ BurstsInvokedOnce'

\* C24: a call of the debounced function does not invoke func; calls that
\* arrive while the timer of the previous call is pending form a burst, and
\* func is invoked once for a burst, after its last call and with the args
\* of that call: every invocation directly follows the last call of a burst
\* and carries its args, no call but the last of a burst is followed by an
\* invocation, and after the last call so far exactly one timer, with the
\* args of that call, is pending.
C24_Debounce == [][C24_Step]_vars

\* a burst of three calls has led to one invocation, with the args of the
\* third call
C24_Witness ==
    /\ Len(dbLog) = 4
    /\ \A k \in 1..3 : dbLog[k].kind = "call"
    /\ dbLog[1].args # dbLog[3].args
    /\ dbLog[4] = [kind |-> "invoke", args |-> dbLog[3].args]

(***************************************************************************)
(* HTML fragments with the line numbers of a real diff, extracted and      *)
(* rendered                                                                *)
(***************************************************************************)
MaxRealLines == 3

\* the text of a diff line: 'c', the SQL comment '-- x', '++i', the empty line
RealTexts == {<<"c">>, <<"-", "-", " ", "x">>, <<"+", "+", "i">>, <<>>}

\* a line of the fragment before it gets its numbers; hunk tells that the
\* line opens a hunk after unchanged lines that are not shown
RealLines ==
    {l \in [type : {"context", "added", "removed"}, text : RealTexts, hunk : BOOLEAN] :
        l.hunk => l.type = "context"}

NumberAttr(shown, n) == IF shown THEN ToDecimal(n) ELSE Null

\* the line holders of the lines from the k-th on, old and new being the
\* numbers of the next old and new line; three unchanged lines lie between
\* two hunks
RECURSIVE RealHolders(_, _, _, _)
RealHolders(ls, k, old, new) ==
    IF k > Len(ls) THEN <<>>
    ELSE LET l == ls[k]
             o == IF l.hunk /\ k > 1 THEN old + 3 ELSE old
             n == IF l.hunk /\ k > 1 THEN new + 3 ELSE new
         IN  <<Holder(IF l.type = "removed" THEN {"old"}
                      ELSE IF l.type = "added" THEN {"new"} ELSE {},
                      NumberAttr(l.type # "added", o), NumberAttr(l.type # "removed", n),
                      l.text)>>
             \o RealHolders(ls, k + 1,
                            IF l.type = "added" THEN o ELSE o + 1,
                            IF l.type = "removed" THEN n ELSE n + 1)

\* fragments that start with a context line numbered 5 (old) and 7 (new)
RealFragments ==
    {RealHolders(ls, 1, 5, 7) :
        ls \in {s \in SeqsUpTo(RealLines, 1, MaxRealLines) : s[1].type = "context"}}

RealHtmlInit ==
    /\ htmlHolders \in RealFragments
    /\ extracted = Null
    /\ htmlPanel = <<>>
    /\ htmlPc = "ready"
    /\ OnlyHtml

SpecHtmlReal == RealHtmlInit /\ [][HtmlNext]_vars

(***************************************************************************)
(* Claims on the extracted diff as renderDiff draws it                     *)
(***************************************************************************)
PanelRows ==
    IF htmlPc = "rendered" /\ htmlPanel # <<>>
       /\ htmlPanel[Len(htmlPanel)].el = "ct-diff-table"
    THEN htmlPanel[Len(htmlPanel)].rows
    ELSE <<>>

PanelLineRows == NoSeparators(PanelRows)

\* in the numbered column the line k follows a numbered line whose number is
\* not the one before its own: a hunk starts at k
OpensHunk(k) ==
    k > 1 /\ OldNumberOf(k) # NoNum /\ LastNumbered(k, OldNumberOf) # NoNum
          /\ OldNumberOf(k)[1] > LastNumbered(k, OldNumberOf)[1] + 1

\* the rows drawn before the separator row at position p of the table
LineRowsBefore(p) == Cardinality({q \in 1..(p - 1) : PanelRows[q].cls # "separator"})

\* C25: the rows that renderDiff draws for the extracted diff of a fragment
\* with real line numbers are, in document order, the lines of the fragment
\* with their kind and their old and new numbers, and a separator row stands
\* before the first line of every hunk but the first and nowhere else.
C25_RenderedAsInHtml ==
    htmlPc = "rendered" =>
        /\ Len(PanelLineRows) = Len(Recognized)
        /\ \A k \in 1..Len(PanelLineRows) :
              /\ PanelLineRows[k].cls = LineType(Recognized[k])
              /\ PanelLineRows[k].oldNum = OldNumberOf(k)
              /\ PanelLineRows[k].newNum = NewNumberOf(k)
        /\ {LineRowsBefore(p) + 1 : p \in {q \in 1..Len(PanelRows) : PanelRows[q].cls = "separator"}}
              = {k \in 1..Len(Recognized) : OpensHunk(k)}

(***************************************************************************)
(* The statistics of a diff text and the rows drawn for the same text      *)
(***************************************************************************)
\* a file of the tree carries diff_content: buildFileTree counts its lines
\* for the +N / -M of the file, the preview draws it
StatsAndDiffInit ==
    /\ diffContent \in {Null, <<>>} \cup OddInputs
    /\ statsInput = diffContent
    /\ statsOut = ZeroStats
    /\ statsPc = "ready"
    /\ container = <<>>
    /\ diffPc = "ready"
    /\ OnlyStatsAndDiff

StatsAndDiffNext == ParseFileStatsCall \/ RenderDiffCall

SpecStatsAndDiff == StatsAndDiffInit /\ [][StatsAndDiffNext]_vars

RowsOfClass(cls) == Cardinality({k \in 1..Len(TableRows) : TableRows[k].cls = cls})

\* C26: the additions and deletions that parseFileStats counts in a diff
\* text are the numbers of added and removed rows that renderDiff draws for
\* it, the rows of paired modifications included.
C26_StatsMatchRows ==
    (statsPc = "returned" /\ diffPc = "rendered") =>
        /\ statsOut.additions = RowsOfClass("added")
        /\ statsOut.deletions = RowsOfClass("removed")

\* a '+++' line and a paired modification: 1 addition, 1 deletion, two rows
C26_Witness ==
    /\ statsPc = "returned" /\ diffPc = "rendered"
    /\ diffContent = Join(<<NewFileLine, RemovedLine, AddedLine>>, "\n")
    /\ statsOut = [additions |-> 1, deletions |-> 1]
    /\ Len(TableRows) = 2

(***************************************************************************)
(* showFileInPreview and renderFullFileContent: caches and fetches         *)
(*                                                                         *)
(* The files are those of a compare page that carry no diff_content, so    *)
(* that the diff is fetched; project and ref are the same for every call.  *)
(* Each call creates a previewContent element of its own; a fetch draws    *)
(* into the element of the call that started it.                           *)
(***************************************************************************)
MaxShows == 3

PreviewFiles == {"a.js", "b.js"}

\* the extracted diff or the content of a file: empty or not
FetchedValues == {<<>>, <<"+", "x">>}

CacheKey(mode, file) == <<mode, file>>

\* Map.get: undefined when no entry has been set
CacheGet(cache, key) ==
    IF \E entry \in cache : entry.key = key
    THEN (CHOOSE entry \in cache : entry.key = key).value
    ELSE Null

\* Map.set
CacheSet(cache, key, value) ==
    {entry \in cache : entry.key # key} \cup {[key |-> key, value |-> value]}

\* if (cachedDiff) / if (!fileContent): undefined and '' are not served
ServedFromCache(cached) == ~IsFalsy(cached)

Element(file, mode, state, value) ==
    [file |-> file, mode |-> mode, state |-> state, value |-> value]

\* faulty variant: the fetched content is drawn into the element the panel
\* holds now
DrawnIntoAttached(fetch, attached) == attached

\* the element a fetch draws into: previewContent of the call that started it
DrawnInto(fetch, attached) == fetch.el

PreviewInit ==
    /\ pvServer \in [PreviewFiles -> FetchedValues]
    /\ pvCache = {}
    /\ pvInflight = {}
    /\ pvElements = <<>>
    /\ pvAttached = 0
    /\ pvSelected = Null
    /\ pvLog = <<>>
    /\ OnlyPreview

\* showFileInPreview(previewPanel, fileNode, mode): the panel is emptied and
\* gets a new previewContent; the diff or the file is drawn from the cache
\* or a fetch is started
ShowFileInPreview(file, mode) ==
    /\ pvServer # <<>>
    /\ Len(pvElements) < MaxShows
    /\ LET el == Len(pvElements) + 1
           cached == CacheGet(pvCache, CacheKey(mode, file))
       IN  /\ pvAttached' = el
           /\ pvSelected' = [file |-> file, mode |-> mode]
           /\ IF ServedFromCache(cached)
              THEN /\ pvElements' = Append(pvElements, Element(file, mode, "drawn", cached))
                   /\ UNCHANGED <<pvInflight, pvLog>>
              ELSE /\ pvElements' = Append(pvElements, Element(file, mode, "loading", Null))
                   /\ pvInflight' = pvInflight \cup {[file |-> file, mode |-> mode, el |-> el]}
                   /\ pvLog' = Append(pvLog, [event |-> "request", key |-> CacheKey(mode, file)])
    /\ UNCHANGED <<pvServer, pvCache, restOfPreview>>

\* an awaited fetch resolves: the value is put in the cache and drawn
FetchResolves(fetch) ==
    /\ fetch \in pvInflight
    /\ LET value == pvServer[fetch.file] IN
       /\ pvCache' = CacheSet(pvCache, CacheKey(fetch.mode, fetch.file), value)
       /\ pvElements' = [pvElements EXCEPT ![DrawnInto(fetch, pvAttached)] =
                            Element(fetch.file, fetch.mode, "drawn", value)]
    /\ pvInflight' = pvInflight \ {fetch}
    /\ pvLog' = Append(pvLog, [event |-> "fetched", key |-> CacheKey(fetch.mode, fetch.file)])
    /\ UNCHANGED <<pvServer, pvAttached, pvSelected, restOfPreview>>

\* an awaited fetch fails (or brings no html): the catch block draws the
\* notice, or the error message, in place of the loading indicator
FetchRejects(fetch) ==
    /\ fetch \in pvInflight
    /\ pvElements' = [pvElements EXCEPT ![DrawnInto(fetch, pvAttached)] =
                         Element(fetch.file, fetch.mode, "failed", Null)]
    /\ pvInflight' = pvInflight \ {fetch}
    /\ pvLog' = Append(pvLog, [event |-> "failed", key |-> CacheKey(fetch.mode, fetch.file)])
    /\ UNCHANGED <<pvServer, pvCache, pvAttached, pvSelected, restOfPreview>>

PreviewNext ==
    \/ \E file \in PreviewFiles, mode \in {"diff", "full"} : ShowFileInPreview(file, mode)
    \/ \E fetch \in pvInflight : FetchResolves(fetch)
    \/ \E fetch \in pvInflight : FetchRejects(fetch)

SpecPreview == PreviewInit /\ [][PreviewNext]_vars

(***************************************************************************)
(* Claims on the caches and on fetches in flight                           *)
(***************************************************************************)
\* C27: once a diff or a file content has been fetched, no later request is
\* made for the same file, project and ref, whatever the fetched value was.
C27_ServedFromCache ==
    \A k \in 1..Len(pvLog) :
        pvLog[k].event = "request" =>
            ~\E j \in 1..(k - 1) : pvLog[j].event = "fetched" /\ pvLog[j].key = pvLog[k].key

\* what the panel displays: the element that is its child
Displayed == pvElements[pvAttached]

\* C28: the panel displays the file and mode selected last, whatever fetch of
\* an earlier selection resolves or fails: the displayed element is the one
\* of the last call, it shows the loading indicator only while its own fetch
\* is awaited, and what is drawn in it is the value of its file.
C28_LastSelectedShown ==
    pvAttached # 0 =>
        /\ Displayed.file = pvSelected.file
        /\ Displayed.mode = pvSelected.mode
        /\ Displayed.state = "loading" <=>
              [file |-> pvSelected.file, mode |-> pvSelected.mode, el |-> pvAttached]
                  \in pvInflight
        /\ Displayed.state = "drawn" => Displayed.value = pvServer[pvSelected.file]

\* a second file was selected while the fetch of the first was awaited, and
\* the first fetch has resolved since
C28_Witness ==
    /\ Len(pvElements) = 2
    /\ pvAttached = 2
    /\ pvElements[1].file # pvElements[2].file
    /\ pvElements[1].state = "drawn"
    /\ pvElements[2].state = "loading"
    /\ Len(pvLog) = 3 /\ pvLog[2].event = "request" /\ pvLog[3].event = "fetched"

(***************************************************************************)
(* Branch-history page: the tree button of a commit                        *)
(*                                                                         *)
(* For every commit element: whether it has its button, the display of the *)
(* tree container that follows it ("absent" when there is none), the icon  *)
(* of the button, the state of the file-list fetch, and how many           *)
(* containers were created and fetches started for it.                     *)
(***************************************************************************)
MaxCommits == 3

CommitElements == 1..MaxCommits

NoButton ==
    [button |-> FALSE, container |-> "absent", icon |-> "none", fetch |-> "none",
     containers |-> 0, fetches |-> 0]

\* attachTreeButtonToCommit: nothing is attached when the tree container
\* already follows the commit element
attachTreeButtonToCommit(ui) ==
    IF ui.container # "absent" THEN ui
    ELSE [ui EXCEPT !.button = TRUE, !.icon = "tree"]

\* faulty variant: the container counts only once its files are loaded
HasTreeContainerOnceLoaded(ui) == ui.container # "absent" /\ ui.fetch # "pending"

\* existingContainer && existingContainer.classList.contains(commitTreeContainer)
HasTreeContainer(ui) == ui.container # "absent"

\* createTreeForCommit up to its await: the existing container is toggled,
\* or a container is inserted after the commit element and the fetch started
createTreeForCommit(ui) ==
    IF HasTreeContainer(ui)
    THEN LET isHidden == ui.container = "none" IN
         [ui EXCEPT !.container = IF isHidden THEN "block" ELSE "none",
                    !.icon = IF isHidden THEN "close" ELSE "tree"]
    ELSE [ui EXCEPT !.container = "", !.icon = "close", !.fetch = "pending",
                    !.containers = @ + 1, !.fetches = @ + 1]

\* initBranchHistory: the commit elements of the page have no button yet
CommitsInit ==
    /\ commitUi = [c \in CommitElements |-> NoButton]
    /\ OnlyCommits

\* processCommits: every commit element without a button gets one
ProcessCommits ==
    /\ commitUi # <<>>
    /\ \E c \in CommitElements : ~commitUi[c].button
    /\ commitUi' = [c \in CommitElements |->
                       IF commitUi[c].button THEN commitUi[c]
                       ELSE attachTreeButtonToCommit(commitUi[c])]
    /\ UNCHANGED restOfCommits

\* treeButton.onclick
ClickTreeButton(c) ==
    /\ commitUi # <<>>
    /\ commitUi[c].button
    /\ commitUi' = [commitUi EXCEPT ![c] = createTreeForCommit(@)]
    /\ UNCHANGED restOfCommits

\* fetchAllFilesWithPagination resolves: the tree, or the notice that the
\* commit has no file, is put into the container
FileListResolves(c, outcome) ==
    /\ commitUi # <<>>
    /\ commitUi[c].fetch = "pending"
    /\ commitUi' = [commitUi EXCEPT ![c].fetch = outcome]
    /\ UNCHANGED restOfCommits

\* fetchAllFilesWithPagination rejects: the error message is put into the
\* container
FileListRejects(c) ==
    /\ commitUi # <<>>
    /\ commitUi[c].fetch = "pending"
    /\ commitUi' = [commitUi EXCEPT ![c].fetch = "failed"]
    /\ UNCHANGED restOfCommits

CommitsNext ==
    \/ ProcessCommits
    \/ \E c \in CommitElements : ClickTreeButton(c)
    \/ \E c \in CommitElements, outcome \in {"tree", "no files"} : FileListResolves(c, outcome)
    \/ \E c \in CommitElements : FileListRejects(c)

SpecCommits == CommitsInit /\ [][CommitsNext]_vars

(***************************************************************************)
(* Claims on the tree button                                               *)
(***************************************************************************)
IsVisible(ui) == ui.container \in {"", "block"}

C29_Step ==
    \A c \in CommitElements :
        /\ commitUi'[c].containers <= 1
        /\ commitUi'[c].fetches <= 1
        /\ commitUi'[c].button =>
              (commitUi'[c].icon = "close" <=> IsVisible(commitUi'[c]))
        /\ (commitUi[c].container # "absent" /\ commitUi'[c].container # commitUi[c].container) =>
              /\ IsVisible(commitUi'[c]) # IsVisible(commitUi[c])
              /\ commitUi'[c].fetch = commitUi[c].fetch

\* C29: for each commit at most one tree container is created and at most
\* one file-list fetch is started, whenever and however often its button is
\* clicked, also while the fetch is pending and after it failed; a click on
\* a button whose container exists only toggles the visibility of the
\* container, and the button shows the close icon exactly when the container
\* is visible.
C29_TreeButton == [][C29_Step]_vars

\* the button of a commit was clicked again after the first click, the fetch
\* has failed, and the container is visible again: one container, one fetch
C29_Witness ==
    \E c \in CommitElements :
        /\ commitUi[c].fetch = "failed"
        /\ commitUi[c].container = "block"
        /\ commitUi[c].containers = 1 /\ commitUi[c].fetches = 1
        /\ commitUi[c].icon = "close"

(***************************************************************************)
(* A file is shown in a panel whose search has been used                   *)
(***************************************************************************)
\* showFileInPreview on a panel with a search bar: the panel is emptied, the
\* bar is put back, hidden, with an empty input, and the content of the file
\* is drawn; the closure state of setupPreviewSearch and the counter element
\* are not touched
ShowFileOverSearch ==
    /\ searchBar # "absent"
    /\ searchBar' = "none"
    /\ searchValue' = <<>>
    /\ panelCells' \in SeqsUpTo(PanelCellChoices, 0, MaxCells)
    /\ UNCHANGED <<searchTimer, currentMatches, currentIndex, counter, restOfSearch>>

SearchAndShowNext == SearchNext \/ ShowFileOverSearch

SpecSearchAndShow == SearchInit /\ [][SearchAndShowNext]_vars

(***************************************************************************)
(* Claims on the search after a file is shown                              *)
(***************************************************************************)
InitialSearchState ==
    /\ searchBar = "none"
    /\ searchValue = <<>>
    /\ counter = CounterText(0, 0)
    /\ currentMatches = <<>>
    /\ currentIndex = -1

\* C30: whenever a file is shown in the panel the search is back in its
\* initial state: the bar hidden, the input empty, the counter 0/0, no
\* matches and no current match, so that next and previous do nothing until
\* a query is entered.
C30_SearchResetOnShow == [][ShowFileOverSearch => InitialSearchState']_vars

(***************************************************************************)
(* The components together: one of them is set up and used                 *)
(***************************************************************************)
Init ==
    \/ TreeInit
    \/ TreeStatusInit
    \/ StatsInit
    \/ DiffInit
    \/ HtmlInit
    \/ HlInit
    \/ ApiInit
    \/ SearchInit
    \/ FolderInit
    \/ OddInit
    \/ PagesInit
    \/ DebounceInit
    \/ RealHtmlInit
    \/ StatsAndDiffInit
    \/ PreviewInit
    \/ CommitsInit

Next ==
    \/ TreeNext
    \/ StatsNext
    \/ DiffNext
    \/ HtmlNext
    \/ HlNext
    \/ ApiNext
    \/ SearchAndShowNext
    \/ FolderNext
    \/ PagesNext
    \/ DebounceNext
    \/ PreviewNext
    \/ CommitsNext

Spec == Init /\ [][Next]_vars

====
